---- MODULE Spec2Model ----
(***************************************************************************)
(* Luxe Vision Creator: the timeline / keyframe store of                   *)
(* src/lib/animation-timeline.ts, the style mixer of the style library     *)
(* module, the data service (local store first, remote mirror second), the *)
(* beta invites, the prompt history, the collaboration library and the     *)
(* studio screen, as state machines over one set of variables.             *)
(*                                                                         *)
(* Every public operation of the timeline library is an async function.  A *)
(* call is modelled as a small process: it starts (the synchronous prefix  *)
(* up to the first await), resumes once per awaited AsyncStorage call, and *)
(* returns.  AsyncStorage.getItem / setItem take effect atomically at the  *)
(* step that resolves them.  Spec runs the calls one after another,        *)
(* SpecIO additionally lets AsyncStorage throw, SpecConc lets two calls    *)
(* be in flight at once.  SpecStyles applies mixStyles and                 *)
(* applyMixedStylesToPrompt to the lists a caller can pass.  SpecData runs *)
(* syncUser and saveCreation with the Supabase client absent or            *)
(* configured and the remote reachable or not; SpecDataFair adds that      *)
(* every awaited promise settles.  SpecInvites runs createBetaInvite and    *)
(* validateBetaInvite with two calls in flight, SpecHistory the prompt     *)
(* history calls, SpecWorkspaces createWorkspace, joinWorkspace and        *)
(* leaveWorkspace, SpecCollab two editors creating and updating            *)
(* collaborative prompts, SpecStudio the studio screen's handleGenerate    *)
(* (SpecStudioFair: every awaited promise settles).                        *)
(*                                                                         *)
(* Times and durations are integers in units of 1/TimeScale second, so     *)
(* that the beats (every 0.5 s) and the frame times (frame / fps) are      *)
(* exact.  Ids built from template strings are tuples: `timeline_${t}` is  *)
(* <<"timeline", t>>, `keyframe_${t}_1` is <<"keyframe", t, 1>>,           *)
(* `keyframe_${t}` is <<"keyframe", t>>, `keyframe_beat_${i}` is           *)
(* <<"keyframe_beat", i>>.  Sequences are 1-based: index 0 stands for      *)
(* JavaScript's -1 (not found).                                            *)
(***************************************************************************)
EXTENDS Integers, Sequences, FiniteSets, TLC

VARIABLES
    storage,   \* the parsed value under TIMELINE_PROJECTS_KEY (a missing key reads as [])
    now,       \* Date.now()
    calls,     \* the calls in flight, one per slot
    callsLeft, \* how many more calls the callers start
    faultsLeft,\* how many more times AsyncStorage throws
    mixer,     \* the style mixer: the latest mixStyles / applyMixedStylesToPrompt call
    localStore,       \* the data service's AsyncStorage keys: luxe_users, luxe_creations_<userId>
    supabaseInstance, \* the Supabase client singleton: "null" or "client"
    online,           \* whether requests to the remote mirror get through
    remoteTables,     \* the rows of the remote tables profiles and creations
    dataCall,         \* the data service call in flight
    dataCallsLeft,    \* how many more data service calls the callers start
    invites,          \* the beta invites: the key luxe_beta_invites and the calls on it
    history,          \* the prompt history: the key luxe_prompt_history and the latest call
    workspaces,       \* the collaboration workspaces: the key luxe_workspaces
    collab,           \* the collaborative prompts the editors hold and have broadcast
    studio            \* the studio screen: its React state and handleGenerate's position

timelineVars == <<storage, now, calls, callsLeft, faultsLeft>>
dataVars == <<localStore, supabaseInstance, online, remoteTables, dataCall, dataCallsLeft>>
restVars == <<invites, history, workspaces, collab, studio>>
vars == <<storage, now, calls, callsLeft, faultsLeft, mixer,
          localStore, supabaseInstance, online, remoteTables, dataCall, dataCallsLeft,
          invites, history, workspaces, collab, studio>>

----------------------------------------------------------------------------
(* Bounds of the model *)

MaxClock == 1
MaxCalls == 4
MaxConcCalls == 2
MaxIOCalls == 2
MaxFaults == 1
MaxStyles == 3
MaxDataCalls == 3
MaxInvites == 1       \* beta invites created
MaxInviteCalls == 3   \* createBetaInvite and validateBetaInvite calls started
MaxPromptCalls == 3   \* createCollaborativePrompt and updateCollaborativePrompt calls
MAX_HISTORY_ITEMS == 2  \* the length the history is cut to (500 in the source)

(* Units and program constants *)

TimeScale == 120
DefaultDuration == 10
DefaultFps == 30
BeatCount == 10

Slots == {"a", "b"}
MainSlot == "a"

Names == {"Untitled Timeline"}
Prompts == {"New scene"}
Times == {0, 3 * TimeScale}
AudioUrls == {"file:///cache/beat.mp3"}
NoAudio == ""
Updates == {[prompt |-> "Edited"], [time |-> 0]}
NoUpdates == [prompt |-> ""]
NoId == <<>>
MissingProjectId == <<"timeline", -1>>
MissingKeyframeId == <<"keyframe", -1>>

----------------------------------------------------------------------------
(* Helpers over sequences *)

Range(s) == {s[i] : i \in 1..Len(s)}

Min(S) == CHOOSE x \in S : \A y \in S : x <= y

\* Array.prototype.findIndex(x => x.id === id): first match, 0 when there is none
FindIndexById(s, id) ==
    LET hits == {i \in 1..Len(s) : s[i].id = id}
    IN IF hits = {} THEN 0 ELSE Min(hits)

\* Array.prototype.filter(x => x.id !== id)
FilterOutId(s, id) ==
    LET Keep(x) == x.id # id
    IN SelectSeq(s, Keep)

\* One insertion step of a stable sort: k goes after every element whose time is <= k.time
InsertByTime(sorted, k) ==
    LET n == Cardinality({i \in 1..Len(sorted) : sorted[i].time <= k.time})
    IN SubSeq(sorted, 1, n) \o <<k>> \o SubSeq(sorted, n + 1, Len(sorted))

RECURSIVE SortRec(_)
SortRec(s) ==
    IF Len(s) = 0 THEN <<>>
    ELSE InsertByTime(SortRec(SubSeq(s, 1, Len(s) - 1)), s[Len(s)])

\* keyframes.sort((a, b) => a.time - b.time): a stable sort, ascending by time
SortByTime(s) == SortRec(s)

IsSortedByTime(s) == \A i \in 1..(Len(s) - 1) : s[i].time <= s[i + 1].time

----------------------------------------------------------------------------
(* The data model *)

Keyframe(id, time, prompt, ttype, tdur) ==
    [id |-> id, time |-> time, prompt |-> prompt,
     transitionType |-> ttype, transitionDuration |-> tdur]

\* faulty variant: the keyframe at the end of the timeline is not seeded
NewProjectOneKeyframe(name, t) ==
    [id |-> <<"timeline", t>>,
     name |-> name,
     duration |-> DefaultDuration * TimeScale,
     keyframes |-> << Keyframe(<<"keyframe", t, 1>>, 0, "", "fade", 1 * TimeScale) >>,
     audioUrl |-> NoAudio,
     audioReactive |-> FALSE,
     fps |-> DefaultFps,
     resolution |-> "1080p",
     createdAt |-> t,
     updatedAt |-> t]

\* the project object literal of createTimelineProject, every Date.now() read as t
NewProject(name, t) ==
    [id |-> <<"timeline", t>>,
     name |-> name,
     duration |-> DefaultDuration * TimeScale,
     keyframes |-> << Keyframe(<<"keyframe", t, 1>>, 0, "", "fade", 1 * TimeScale),
                      Keyframe(<<"keyframe", t, 2>>, 10 * TimeScale, "", "fade", 1 * TimeScale) >>,
     audioUrl |-> NoAudio,
     audioReactive |-> FALSE,
     fps |-> DefaultFps,
     resolution |-> "1080p",
     createdAt |-> t,
     updatedAt |-> t]

\* getTimelineProject: projects.find(p => p.id === id) || null, as <<p>> or <<>>
FindProject(projects, id) ==
    LET i == FindIndexById(projects, id)
    IN IF i = 0 THEN <<>> ELSE <<projects[i]>>

\* faulty variant: `index > 0` for `index >= 0`, so the project at index 0 is pushed again
UpsertOffByOne(projects, project, t) ==
    LET index == FindIndexById(projects, project.id)
        stamped == [project EXCEPT !.updatedAt = t]
    IN IF index > 1 THEN [projects EXCEPT ![index] = stamped]
       ELSE Append(projects, stamped)

\* faulty variant: the stored keyframes the saved copy lacks are merged back in
UpsertMergingKeyframes(projects, project, t) ==
    LET index == FindIndexById(projects, project.id)
        stamped == [project EXCEPT !.updatedAt = t]
        Lacking(k) == k \notin Range(project.keyframes)
    IN IF index > 0
       THEN [projects EXCEPT ![index] =
                [stamped EXCEPT !.keyframes =
                    SortByTime(project.keyframes
                               \o SelectSeq(projects[index].keyframes, Lacking))]]
       ELSE Append(projects, stamped)

\* saveTimelineProject, lines 86-94: stamp updatedAt, replace at index or push
Upsert(projects, project, t) ==
    LET index == FindIndexById(projects, project.id)
        stamped == [project EXCEPT !.updatedAt = t]
    IN IF index > 0 THEN [projects EXCEPT ![index] = stamped]
       ELSE Append(projects, stamped)

\* addKeyframe, lines 122-131: the new keyframe, pushed, then the list sorted
NewKeyframe(time, prompt, t) == Keyframe(<<"keyframe", t>>, time, prompt, "fade", 1 * TimeScale)

\* faulty variant: the keyframe is pushed and the list is not sorted
WithKeyframeAddedUnsorted(project, keyframe) ==
    [project EXCEPT !.keyframes = Append(project.keyframes, keyframe)]

WithKeyframeAdded(project, keyframe) ==
    [project EXCEPT !.keyframes = SortByTime(Append(project.keyframes, keyframe))]

\* { ...keyframe, ...updates }
MergeKeyframe(keyframe, updates) ==
    [f \in DOMAIN keyframe |-> IF f \in DOMAIN updates THEN updates[f] ELSE keyframe[f]]

\* updateKeyframe, lines 149-150
WithKeyframeUpdated(project, index, updates) ==
    [project EXCEPT !.keyframes =
        SortByTime([project.keyframes EXCEPT ![index] = MergeKeyframe(project.keyframes[index], updates)])]

\* faulty variant: only the first keyframe with the id is removed (findIndex + splice)
WithKeyframeDeletedFirstOnly(project, keyframeId) ==
    LET index == FindIndexById(project.keyframes, keyframeId)
    IN [project EXCEPT !.keyframes =
           IF index = 0 THEN project.keyframes
           ELSE SubSeq(project.keyframes, 1, index - 1)
                \o SubSeq(project.keyframes, index + 1, Len(project.keyframes))]

\* deleteKeyframe, line 160
WithKeyframeDeleted(project, keyframeId) ==
    [project EXCEPT !.keyframes = FilterOutId(project.keyframes, keyframeId)]

\* analyzeAudio: mockBeats[i] = i * 0.5 for i = 0..9 (as a 1-based sequence)
MockBeats == [i \in 1..BeatCount |-> ((i - 1) * TimeScale) \div 2]

\* the beat keyframes pushed by the forEach of generateAudioReactiveKeyframes, lines 219-229
RECURSIVE BeatKeyframes(_, _, _)
BeatKeyframes(project, firstPrompt, i) ==
    IF i > Len(MockBeats) THEN <<>>
    ELSE (IF MockBeats[i] > 0 /\ MockBeats[i] < project.duration
          THEN << Keyframe(<<"keyframe_beat", i - 1>>, MockBeats[i], firstPrompt,
                           "morph", TimeScale \div 2) >>
          ELSE <<>>)
         \o BeatKeyframes(project, firstPrompt, i + 1)

\* whether some beat passes the test of line 220, so that firstKeyframe.prompt is read
SomeBeatInside(project) ==
    \E i \in 1..Len(MockBeats) : MockBeats[i] > 0 /\ MockBeats[i] < project.duration

\* generateAudioReactiveKeyframes, lines 213-234, for a project with at least one keyframe
WithAudioKeyframes(project, audioUrl) ==
    LET firstKeyframe == project.keyframes[1]
        lastKeyframe == project.keyframes[Len(project.keyframes)]
    IN [project EXCEPT
           !.keyframes = SortByTime(<<firstKeyframe>>
                                    \o BeatKeyframes(project, firstKeyframe.prompt, 1)
                                    \o <<lastKeyframe>>),
           !.audioUrl = audioUrl,
           !.audioReactive = TRUE]

----------------------------------------------------------------------------
(* exportTimelineFrames *)

\* Math.floor(project.duration * project.fps), the duration being in 1/TimeScale s
TotalFrames(project) == (project.duration * project.fps) \div TimeScale

\* faulty variant: `t <= 0.5`, the frame at the midpoint keeps the earlier prompt
LessThanOrEqualHalf(num, den) ==
    IF den > 0 THEN 2 * num <= den
    ELSE IF den < 0 THEN 2 * num >= den
    ELSE num < 0

\* faulty variant: a division by zero takes the `t < 0.5` branch
LessThanHalfZeroIsLess(num, den) ==
    IF den > 0 THEN 2 * num < den
    ELSE IF den < 0 THEN 2 * num > den
    ELSE TRUE

\* num / den < 0.5 in IEEE arithmetic: x/0 is +-Infinity, 0/0 is NaN (compares false)
LessThanHalf(num, den) ==
    IF den > 0 THEN 2 * num < den
    ELSE IF den < 0 THEN 2 * num > den
    ELSE num < 0

\* lines 251-267 for one frame; time = frame / fps, compared after multiplying by fps
FramePrompt(project, frame) ==
    LET kfs == project.keyframes
        fps == project.fps
        time == frame * TimeScale
        pairs == {i \in 1..(Len(kfs) - 1) :
                     kfs[i].time * fps <= time /\ kfs[i + 1].time * fps > time}
        prevKeyframe == IF pairs = {} THEN kfs[1] ELSE kfs[Min(pairs)]
        nextKeyframe == IF pairs = {} THEN kfs[Len(kfs)] ELSE kfs[Min(pairs) + 1]
    IN IF LessThanHalf(time - prevKeyframe.time * fps,
                       (nextKeyframe.time - prevKeyframe.time) * fps)
       THEN prevKeyframe.prompt
       ELSE nextKeyframe.prompt

\* the frames list of lines 247-270 (frame f of the code is element f + 1)
ExportFrames(project) ==
    [f \in 1..TotalFrames(project) |-> FramePrompt(project, f - 1)]

\* prevKeyframe.time of line 266 is read of undefined when there is no keyframe
ExportThrows(project) == TotalFrames(project) > 0 /\ Len(project.keyframes) = 0

----------------------------------------------------------------------------
(* getTimelinePreview *)

\* const colors of line 281
PreviewColors == <<"#FF6B6B", "#4ECDC4", "#45B7D1", "#FFA07A", "#98D8C8", "#F7DC6F">>

\* faulty variant: the color index is not reduced modulo the palette length, and
\* colors[i] past the palette is one more shade of the last color
PreviewSegmentsNoCycle(project) ==
    LET kfs == project.keyframes
        n == IF Len(kfs) = 0 THEN 0 ELSE Len(kfs) - 1
    IN [j \in 1..n |->
          [start |-> kfs[j].time,
           end |-> kfs[j + 1].time,
           prompt |-> kfs[j].prompt,
           color |-> IF j <= Len(PreviewColors) THEN PreviewColors[j]
                     ELSE PreviewColors[Len(PreviewColors)]]]

\* the segments of lines 283-290 (segment i of the code is element i + 1)
PreviewSegments(project) ==
    LET kfs == project.keyframes
        n == IF Len(kfs) = 0 THEN 0 ELSE Len(kfs) - 1
    IN [j \in 1..n |->
          [start |-> kfs[j].time,
           end |-> kfs[j + 1].time,
           prompt |-> kfs[j].prompt,
           color |-> PreviewColors[((j - 1) % Len(PreviewColors)) + 1]]]

----------------------------------------------------------------------------
(* Style mixing: mixStyles and applyMixedStylesToPrompt of the style library       *)
(* module.  A string is the sequence of the pieces it is concatenated from: the    *)
(* empty string is <<>>, a literal is <<"literal">>, concatenation is \o.  Ratios  *)
(* are whole numbers and ratio / total is kept exact as the pair (ratio, total).   *)

Text(literal) == IF literal = "" THEN <<>> ELSE <<literal>>

\* Array.prototype.join(separator) on a list of strings
RECURSIVE Join(_, _)
Join(texts, separator) ==
    IF Len(texts) = 0 THEN <<>>
    ELSE IF Len(texts) = 1 THEN texts[1]
    ELSE texts[1] \o separator \o Join(Tail(texts), separator)

\* allColors.push(...slice) over the styles in order
RECURSIVE Concat(_)
Concat(lists) ==
    IF Len(lists) = 0 THEN <<>> ELSE lists[1] \o Concat(Tail(lists))

\* ratios.reduce((sum, r) => sum + r, 0)
RECURSIVE SumOf(_)
SumOf(ratios) ==
    IF Len(ratios) = 0 THEN 0 ELSE ratios[1] + SumOf(Tail(ratios))

Features(colorPalette, lighting, composition, mood, artStyle) ==
    [colorPalette |-> colorPalette,
     lighting |-> Text(lighting),
     composition |-> Text(composition),
     mood |-> Text(mood),
     artStyle |-> Text(artStyle)]

\* the features analyzeStyleFromImage returns
StyleCinematic ==
    [id |-> "style_1",
     extractedFeatures |->
        Features(<<"#2C3E50", "#E74C3C", "#ECF0F1", "#3498DB", "#F39C12">>,
                 "dramatic side lighting with high contrast",
                 "rule of thirds, centered subject with negative space",
                 "mysterious and contemplative",
                 "cinematic photography with film grain")]

\* a second library style with a palette of five colors
StyleNeon ==
    [id |-> "style_2",
     extractedFeatures |->
        Features(<<"#FF00FF", "#00FFFF", "#111111", "#39FF14", "#FFD300">>,
                 "neon glow", "wide street view", "electric", "cyberpunk")]

\* a library style with a palette of three colors and an empty art style
StyleSketch ==
    [id |-> "style_3",
     extractedFeatures |->
        Features(<<"#FFFFFF", "#000000", "#888888">>,
                 "flat light", "loose framing", "calm", "")]

Ratios == {0, 10, 20, 70, 90}
Intensities == {0, 30, 31, 50, 51, 70, 71, 100}
BasePrompts == {<<"a lighthouse at dusk">>}

InvalidArgument == "Styles and ratios arrays must have the same length"
\* a property of undefined is read
TypeError == "TypeError"

\* faulty variant: Math.floor for Math.round
FlooredCount(length, ratio, total) ==
    IF total = 0 THEN 0 ELSE (length * ratio) \div total

\* Math.round(length * (ratio / total)): half rounds up; 0 / 0 is NaN, and
\* slice(0, NaN) takes nothing
RoundedCount(length, ratio, total) ==
    IF total = 0 THEN 0 ELSE (2 * length * ratio + total) \div (2 * total)

\* faulty variant: lastIndexOf for indexOf
DominantIndexLast(ratios, total) ==
    LET top == {i \in 1..Len(ratios) : \A j \in 1..Len(ratios) : ratios[j] <= ratios[i]}
    IN IF total = 0 THEN 0 ELSE CHOOSE i \in top : \A j \in top : j <= i

\* normalizedRatios.indexOf(Math.max(...normalizedRatios)), 1-based, 0 for -1:
\* Math.max() of no argument is -Infinity and of NaN is NaN, neither is found
DominantIndex(ratios, total) ==
    LET top == {i \in 1..Len(ratios) : \A j \in 1..Len(ratios) : ratios[j] <= ratios[i]}
    IN IF total = 0 THEN 0 ELSE Min(top)

\* faulty variant: `>= 0.2` for `> 0.2`
AtLeastFifth(ratio, total) == total # 0 /\ 5 * ratio >= total

\* ratio / total > 0.2; NaN > 0.2 is false
AboveFifth(ratio, total) == total # 0 /\ 5 * ratio > total

\* lines 227-234: map to the artStyle or null, filter(Boolean), which drops null
\* and the empty string, join
MixedArtStyle(styles, ratios, total) ==
    LET kept == {i \in 1..Len(styles) :
                    /\ AboveFifth(ratios[i], total)
                    /\ styles[i].extractedFeatures.artStyle # <<>>}
        Keep(i) == i \in kept
        indices == SelectSeq([i \in 1..Len(styles) |-> i], Keep)
    IN Join([k \in 1..Len(indices) |-> styles[indices[k]].extractedFeatures.artStyle],
            <<" mixed with ">>)

\* lines 203-211: the colors taken from each style, concatenated, cut to 5
MixedPalette(styles, ratios, total) ==
    LET Taken(i) ==
            LET palette == styles[i].extractedFeatures.colorPalette
                count == RoundedCount(Len(palette), ratios[i], total)
            IN SubSeq(palette, 1, IF count < Len(palette) THEN count ELSE Len(palette))
        allColors == Concat([i \in 1..Len(styles) |-> Taken(i)])
    IN SubSeq(allColors, 1, IF Len(allColors) < 5 THEN Len(allColors) ELSE 5)

\* mixStyles, lines 190-237: the outcome (status) and the features returned
MixStylesResult(styles, ratios) ==
    IF Len(styles) # Len(ratios)
    THEN [status |-> InvalidArgument, features |-> <<>>]
    ELSE LET total == SumOf(ratios)
             dominantIndex == DominantIndex(ratios, total)
         IN IF dominantIndex = 0
            THEN [status |-> TypeError, features |-> <<>>]
            ELSE LET dominantStyle == styles[dominantIndex]
                 IN [status |-> "ok",
                     features |->
                        <<[colorPalette |-> MixedPalette(styles, ratios, total),
                           lighting |-> dominantStyle.extractedFeatures.lighting,
                           composition |-> dominantStyle.extractedFeatures.composition,
                           mood |-> dominantStyle.extractedFeatures.mood,
                           artStyle |-> MixedArtStyle(styles, ratios, total)]>>]

\* faulty variant: `>=` for `>` in the intensity tests
IntensityAtLeast(intensity, tenths) == 10 * intensity >= 100 * tenths

\* intensity / 100 > tenths / 10
IntensityAbove(intensity, tenths) == 10 * intensity > 100 * tenths

\* styleModifiers of lines 245-259
StyleModifiers(mixedFeatures, intensity) ==
    (IF IntensityAbove(intensity, 3) THEN <<mixedFeatures.lighting>> ELSE <<>>)
    \o (IF IntensityAbove(intensity, 5)
        THEN <<mixedFeatures.mood, mixedFeatures.composition>> ELSE <<>>)
    \o (IF IntensityAbove(intensity, 7)
        THEN <<mixedFeatures.artStyle,
               <<"color palette: ">>
                  \o Join([i \in 1..Len(mixedFeatures.colorPalette) |->
                              Text(mixedFeatures.colorPalette[i])], <<", ">>)>>
        ELSE <<>>)

\* applyMixedStylesToPrompt, lines 239-262
MixedPrompt(basePrompt, mixedFeatures, intensity) ==
    basePrompt \o <<", ">> \o Join(StyleModifiers(mixedFeatures, intensity), <<", ">>)

\* a mix saved to the library by the mixer screen: the first two styles in equal parts
StyleSavedMix ==
    [id |-> "mix_1",
     extractedFeatures |-> MixStylesResult(<<StyleCinematic, StyleNeon>>, <<70, 70>>).features[1]]

StyleLibrary == {StyleCinematic, StyleNeon, StyleSketch, StyleSavedMix}

\* the lists a caller passes: up to MaxStyles styles, no style twice, and up to
\* MaxStyles ratios
StyleLists ==
    {l \in UNION {[1..n -> StyleLibrary] : n \in 0..MaxStyles} :
        \A i, j \in 1..Len(l) : i # j => l[i] # l[j]}
RatioLists == UNION {[1..n -> Ratios] : n \in 0..MaxStyles}

IdleMixer ==
    [pc |-> "idle", styles |-> <<>>, ratios |-> <<>>, status |-> "",
     features |-> <<>>, basePrompt |-> <<>>, intensity |-> 0, prompt |-> <<>>]

\* a call of mixStyles(styles, ratios); the function is pure, one call per behaviour
\* covers it
MixStyles ==
    /\ mixer.pc = "idle"
    /\ \E styles \in StyleLists, ratios \in RatioLists :
        LET result == MixStylesResult(styles, ratios)
        IN mixer' = [IdleMixer EXCEPT !.pc = "mixed",
                                      !.styles = styles, !.ratios = ratios,
                                      !.status = result.status,
                                      !.features = result.features]

\* a call of applyMixedStylesToPrompt on the features mixStyles returned
ApplyMixedStylesToPrompt ==
    /\ mixer.pc \in {"mixed", "applied"} /\ mixer.status = "ok"
    /\ \E basePrompt \in BasePrompts, intensity \in Intensities :
          mixer' = [mixer EXCEPT !.pc = "applied",
                                 !.basePrompt = basePrompt, !.intensity = intensity,
                                 !.prompt = <<MixedPrompt(basePrompt, mixer.features[1],
                                                          intensity)>>]

----------------------------------------------------------------------------
(* The data service: local store first, remote mirror second *)

UserIds == {"1"}

\* two versions of one profile and a second profile
Users ==
    {[id |-> "1", name |-> "Ada", subscriptionTier |-> "free"],
     [id |-> "1", name |-> "Ada", subscriptionTier |-> "pro"],
     [id |-> "2", name |-> "Grace", subscriptionTier |-> "free"]}

Creations ==
    {[id |-> "creation_1", prompt |-> "a lighthouse at dusk", thumbnailUrl |-> "file:///1.png"],
     [id |-> "creation_2", prompt |-> "a harbour at dawn", thumbnailUrl |-> "file:///2.png"]}

\* the object handed to supabase.from('profiles').upsert
ProfileRow(user) ==
    [id |-> user.id, name |-> user.name, subscription_tier |-> user.subscriptionTier]

\* the object handed to supabase.from('creations').insert
CreationRow(creation, userId) ==
    [id |-> creation.id, user_id |-> userId, prompt |-> creation.prompt,
     thumbnail_url |-> creation.thumbnailUrl]

\* the settings the admin screen saves: with and without the Supabase URL
GlobalSettings ==
    {[appName |-> "Luxe Vision", supabaseUrl |-> "https://luxe.supabase.co",
      supabaseKey |-> "anon-key"],
     [appName |-> "Luxe Vision", supabaseUrl |-> "", supabaseKey |-> "anon-key"]}

\* the object handed to supabase.from('global_settings').upsert
SettingsRow(settings) ==
    [id |-> 1, app_name |-> settings.appName,
     supabase_url |-> settings.supabaseUrl, supabase_key |-> settings.supabaseKey]

\* settings.supabaseUrl && settings.supabaseKey
HasCredentials(settings) == settings.supabaseUrl # "" /\ settings.supabaseKey # ""

\* no key is stored: every getItem gives null, read as [] (the settings: <<>>,
\* and <<settings>> once stored)
EmptyLocalStore ==
    [luxe_users |-> <<>>, luxe_creations |-> [u \in UserIds |-> <<>>],
     luxe_global_settings |-> <<>>]

EmptyRemoteTables == [profiles |-> {}, creations |-> {}, global_settings |-> {}]

NoRecord == [id |-> ""]

IdleDataCall ==
    [op |-> "idle", pc |-> "idle",
     record |-> NoRecord,  \* the user or the creation passed in
     userId |-> "",        \* saveCreation's userId
     pending |-> <<>>,     \* the list handed to AsyncStorage.setItem
     remote |-> "none",    \* the remote step: none, skipped, pending, ok, error, threw
     status |-> ""]        \* "ok" once returned, or the error thrown

StorageError == "AsyncStorage error"

\* the data service at rest, no client configured
DataInit ==
    /\ localStore = EmptyLocalStore
    /\ supabaseInstance = "null"
    /\ online = TRUE
    /\ remoteTables = EmptyRemoteTables
    /\ dataCall = IdleDataCall
    /\ dataCallsLeft = 0

----------------------------------------------------------------------------
(* The modules that follow the data service, at rest *)

\* 'BETA-' + five random characters: the n-th code drawn is <<"BETA", n>>, no two
\* draws alike
InviteCode(n) == <<"BETA", n>>
InviteCodes == {InviteCode(n) : n \in 1..MaxInvites}
UnknownCode == <<"BETA", 0>>
MaxUsesInputs == {1, 2}

IdleInviteCall ==
    [op |-> "idle", pc |-> "idle",
     code |-> UnknownCode,  \* the code created or validated
     invite |-> <<>>,       \* createBetaInvite's new invite, <<invite>>
     pending |-> <<>>,      \* the list handed to AsyncStorage.setItem
     ret |-> <<>>]          \* the value returned, <<v>>

IdleInvites ==
    [luxe_beta_invites |-> <<>>,    \* the parsed key, [] while it is missing
     calls |-> [s \in Slots |-> IdleInviteCall],
     issued |-> 0,                  \* how many codes were drawn
     returnedTrue |-> [c \in InviteCodes |-> 0],  \* validateBetaInvite calls that returned true
     callsLeft |-> 0]

IdleHistoryCall ==
    [op |-> "idle",
     item |-> <<>>,      \* addPromptToHistory's new item, <<item>>
     promptId |-> <<>>,  \* the id passed to togglePromptFavorite / deletePromptFromHistory
     imported |-> <<>>,  \* JSON.parse(jsonData), when it parses
     pre |-> <<>>,       \* the history when the call started
     status |-> ""]      \* "ok" once returned, or the error thrown

IdleHistory ==
    [luxe_prompt_history |-> <<>>,  \* the parsed key, [] while it is missing
     call |-> IdleHistoryCall]
NoWorkspaceId == <<"workspace", -1>>

IdleWorkspaceCall ==
    [op |-> "idle",
     workspaceId |-> NoWorkspaceId, userId |-> "",
     pre |-> <<>>,     \* the stored workspaces when the call started
     ret |-> <<>>]     \* the workspace returned, <<w>>; <<>> for null and for void

IdleWorkspaces ==
    [luxe_workspaces |-> <<>>,  \* the parsed key, [] while it is missing
     call |-> IdleWorkspaceCall]
Editors == {"1", "2"}

IdleCollabCall ==
    [op |-> "idle", editor |-> "",
     prompt |-> <<>>,  \* the prompt passed to updateCollaborativePrompt, <<p>>
     ret |-> <<>>]     \* the prompt returned, <<p>>

IdleCollab ==
    [client |-> [e \in Editors |-> "null"],  \* what getSupabase() gives on the editor's device
     held |-> [e \in Editors |-> {}],        \* the prompts the editor's screen holds
     sent |-> {},                            \* the prompt_update payloads broadcast so far
     call |-> IdleCollabCall,
     callsLeft |-> 0]
NoUser == "null"
NoUrl == "null"

\* the studio screen as it mounts, lines 32-38, with nobody logged in
IdleStudio ==
    [mode |-> "image", prompt |-> "", user |-> NoUser, generatedUrl |-> NoUrl,
     isGenerating |-> FALSE,
     pc |-> "idle",      \* handleGenerate's position: idle, generate, analyze, save, done
     outcome |-> ""]     \* the path by which handleGenerate returned

RestInit ==
    /\ invites = IdleInvites
    /\ history = IdleHistory
    /\ workspaces = IdleWorkspaces
    /\ collab = IdleCollab
    /\ studio = IdleStudio

----------------------------------------------------------------------------
(* Calls *)

IdleCall ==
    [op |-> "idle", pc |-> "idle",
     projectId |-> NoId, keyframeId |-> NoId, time |-> 0, prompt |-> "",
     updates |-> NoUpdates, audioUrl |-> NoAudio, name |-> "",
     project |-> <<>>,    \* the call's in-memory project, <<p>> once it has one
     pending |-> <<>>,    \* the list handed to AsyncStorage.setItem
     status |-> "",       \* "ok" or the message of the error thrown
     ret |-> <<>>,        \* the value returned, <<v>>
     pre |-> <<>>,        \* the store when the call started
     wrote |-> FALSE]     \* whether the call's setItem succeeded

\* the timeline store at rest, no call to start
TimelineIdle ==
    /\ storage = <<>>
    /\ now = 0
    /\ calls = [s \in Slots |-> IdleCall]
    /\ callsLeft = 0
    /\ faultsLeft = 0

NotFound == "Project not found"
KeyframeNotFound == "Keyframe not found"

\* nothing stored yet; AsyncStorage never throws
Init ==
    /\ storage = <<>>
    /\ now = 0
    /\ calls = [s \in Slots |-> IdleCall]
    /\ callsLeft = MaxCalls
    /\ faultsLeft = 0
    /\ mixer = IdleMixer
    /\ DataInit
    /\ RestInit

\* as Init, with AsyncStorage throwing up to MaxFaults times
InitIO ==
    /\ storage = <<>>
    /\ now = 0
    /\ calls = [s \in Slots |-> IdleCall]
    /\ callsLeft = MaxIOCalls
    /\ faultsLeft = MaxFaults
    /\ mixer = IdleMixer
    /\ DataInit
    /\ RestInit

\* the store after one createTimelineProject, before the concurrent calls start
InitConc ==
    /\ storage = Upsert(<<>>, NewProject("Untitled Timeline", 0), 0)
    /\ now = 0
    /\ calls = [s \in Slots |-> IdleCall]
    /\ callsLeft = MaxConcCalls
    /\ faultsLeft = 0
    /\ mixer = IdleMixer
    /\ DataInit
    /\ RestInit

StoredIds == {p.id : p \in Range(storage)}
ProjectIdInputs == StoredIds \cup {MissingProjectId}
\* the keyframe ids the callers pass: the first two and the last keyframe of the
\* project as stored, and an id no keyframe has
KeyframeIdInputs(projectId) ==
    LET found == FindProject(storage, projectId)
        kfs == found[1].keyframes
    IN (IF found = <<>> THEN {}
        ELSE {kfs[i].id : i \in {1, 2, Len(kfs)} \cap (1..Len(kfs))})
       \cup {MissingKeyframeId}

\* a slot takes a new call once its last call has returned; until then it shows
\* that call's outcome
CanStart(s) == calls[s].pc \in {"idle", "done"} /\ callsLeft > 0

Begin(s, call) ==
    /\ calls' = [calls EXCEPT ![s] = [call EXCEPT !.pre = storage]]
    /\ callsLeft' = callsLeft - 1
    /\ UNCHANGED <<storage, faultsLeft>>

\* an AsyncStorage call throws (fail) only while the fault budget lasts
Fault(fail) ==
    /\ fail => faultsLeft > 0
    /\ faultsLeft' = IF fail THEN faultsLeft - 1 ELSE faultsLeft

\* getTimelineProjects, lines 66-74: the stored list, [] when getItem throws
GetTimelineProjects(fail) == IF fail THEN <<>> ELSE storage

Throw(s, message) ==
    calls' = [calls EXCEPT ![s].pc = "done", ![s].status = message]

\* Date.now(): the clock is read, never behind an earlier reading
DateNow(t) == t \in now..MaxClock /\ now' = t

\* createTimelineProject up to the await inside saveTimelineProject
CreateTimelineProject(s) ==
    /\ CanStart(s)
    /\ \E name \in Names, t \in now..MaxClock :
          /\ DateNow(t)
          /\ Begin(s, [IdleCall EXCEPT !.op = "createTimelineProject", !.pc = "save_read",
                                       !.name = name,
                                       !.project = <<NewProject(name, t)>>])

AddKeyframe(s) ==
    /\ CanStart(s)
    /\ UNCHANGED now
    /\ \E projectId \in ProjectIdInputs, time \in Times, prompt \in Prompts :
          Begin(s, [IdleCall EXCEPT !.op = "addKeyframe", !.pc = "get_project",
                                    !.projectId = projectId, !.time = time,
                                    !.prompt = prompt])

UpdateKeyframe(s) ==
    /\ CanStart(s)
    /\ UNCHANGED now
    /\ \E projectId \in ProjectIdInputs, updates \in Updates :
          \E keyframeId \in KeyframeIdInputs(projectId) :
             Begin(s, [IdleCall EXCEPT !.op = "updateKeyframe", !.pc = "get_project",
                                       !.projectId = projectId,
                                       !.keyframeId = keyframeId,
                                       !.updates = updates])

DeleteKeyframe(s) ==
    /\ CanStart(s)
    /\ UNCHANGED now
    /\ \E projectId \in ProjectIdInputs :
          \E keyframeId \in KeyframeIdInputs(projectId) :
             Begin(s, [IdleCall EXCEPT !.op = "deleteKeyframe", !.pc = "get_project",
                                       !.projectId = projectId,
                                       !.keyframeId = keyframeId])

GenerateAudioReactiveKeyframes(s) ==
    /\ CanStart(s)
    /\ UNCHANGED now
    /\ \E projectId \in ProjectIdInputs, audioUrl \in AudioUrls :
          Begin(s, [IdleCall EXCEPT !.op = "generateAudioReactiveKeyframes",
                                    !.pc = "get_project",
                                    !.projectId = projectId, !.audioUrl = audioUrl])

ExportTimelineFrames(s) ==
    /\ CanStart(s)
    /\ UNCHANGED now
    /\ \E projectId \in ProjectIdInputs :
          Begin(s, [IdleCall EXCEPT !.op = "exportTimelineFrames", !.pc = "get_project",
                                    !.projectId = projectId])

DeleteTimelineProject(s) ==
    /\ CanStart(s)
    /\ UNCHANGED now
    /\ \E projectId \in ProjectIdInputs :
          Begin(s, [IdleCall EXCEPT !.op = "deleteTimelineProject", !.pc = "delete_read",
                                    !.projectId = projectId])

\* the call goes on to `await saveTimelineProject(project)`
GoSave(s, project, ret) ==
    calls' = [calls EXCEPT ![s].pc = "save_read", ![s].project = <<project>>,
                           ![s].ret = ret]

\* addKeyframe after `await getTimelineProject(projectId)`, lines 119-133
AddKeyframeResume(s) ==
    LET c == calls[s] IN
    /\ c.op = "addKeyframe" /\ c.pc = "get_project"
    /\ \E fail \in BOOLEAN, t \in now..MaxClock :
          /\ Fault(fail)
          /\ LET found == FindProject(GetTimelineProjects(fail), c.projectId)
                 keyframe == NewKeyframe(c.time, c.prompt, t)
             IN IF found = <<>> THEN Throw(s, NotFound) /\ t = now /\ UNCHANGED now
                ELSE GoSave(s, WithKeyframeAdded(found[1], keyframe), <<keyframe>>)
                     /\ DateNow(t)
    /\ UNCHANGED <<storage, callsLeft>>

\* faulty variant: the `index < 0` test is missing; keyframes[-1] = ... adds no element, the
\* list is sorted and saved
UpdateKeyframeResumeNoIndexCheck(s) ==
    LET c == calls[s] IN
    /\ c.op = "updateKeyframe" /\ c.pc = "get_project"
    /\ \E fail \in BOOLEAN :
          /\ Fault(fail)
          /\ LET found == FindProject(GetTimelineProjects(fail), c.projectId)
                 index == FindIndexById(found[1].keyframes, c.keyframeId)
             IN IF found = <<>> THEN Throw(s, NotFound)
                ELSE IF index = 0
                     THEN GoSave(s, [found[1] EXCEPT !.keyframes = SortByTime(@)], <<>>)
                ELSE GoSave(s, WithKeyframeUpdated(found[1], index, c.updates), <<>>)
    /\ UNCHANGED <<storage, now, callsLeft>>

\* updateKeyframe after `await getTimelineProject(projectId)`, lines 143-152
UpdateKeyframeResume(s) ==
    LET c == calls[s] IN
    /\ c.op = "updateKeyframe" /\ c.pc = "get_project"
    /\ \E fail \in BOOLEAN :
          /\ Fault(fail)
          /\ LET found == FindProject(GetTimelineProjects(fail), c.projectId)
                 index == FindIndexById(found[1].keyframes, c.keyframeId)
             IN IF found = <<>> THEN Throw(s, NotFound)
                ELSE IF index = 0 THEN Throw(s, KeyframeNotFound)
                ELSE GoSave(s, WithKeyframeUpdated(found[1], index, c.updates), <<>>)
    /\ UNCHANGED <<storage, now, callsLeft>>

\* deleteKeyframe after `await getTimelineProject(projectId)`, lines 157-161
DeleteKeyframeResume(s) ==
    LET c == calls[s] IN
    /\ c.op = "deleteKeyframe" /\ c.pc = "get_project"
    /\ \E fail \in BOOLEAN :
          /\ Fault(fail)
          /\ LET found == FindProject(GetTimelineProjects(fail), c.projectId)
             IN IF found = <<>> THEN Throw(s, NotFound)
                ELSE GoSave(s, WithKeyframeDeleted(found[1], c.keyframeId), <<>>)
    /\ UNCHANGED <<storage, now, callsLeft>>

\* generateAudioReactiveKeyframes after its awaits of getTimelineProject and of
\* analyzeAudio (which touches no state), lines 207-236
GenerateResume(s) ==
    LET c == calls[s] IN
    /\ c.op = "generateAudioReactiveKeyframes" /\ c.pc = "get_project"
    /\ \E fail \in BOOLEAN :
          /\ Fault(fail)
          /\ LET found == FindProject(GetTimelineProjects(fail), c.projectId)
             IN IF found = <<>> THEN Throw(s, NotFound)
                ELSE IF Len(found[1].keyframes) = 0 /\ SomeBeatInside(found[1])
                     THEN Throw(s, TypeError)
                ELSE GoSave(s, WithAudioKeyframes(found[1], c.audioUrl), <<>>)
    /\ UNCHANGED <<storage, now, callsLeft>>

\* exportTimelineFrames after `await getTimelineProject(projectId)`, lines 243-272
ExportResume(s) ==
    LET c == calls[s] IN
    /\ c.op = "exportTimelineFrames" /\ c.pc = "get_project"
    /\ \E fail \in BOOLEAN :
          /\ Fault(fail)
          /\ LET found == FindProject(GetTimelineProjects(fail), c.projectId)
             IN IF found = <<>> THEN Throw(s, NotFound)
                ELSE IF ExportThrows(found[1]) THEN Throw(s, TypeError)
                ELSE calls' = [calls EXCEPT
                        ![s].pc = "done", ![s].status = "ok",
                        ![s].project = found,
                        ![s].ret = <<[frames |-> ExportFrames(found[1]),
                                      fps |-> found[1].fps]>>]
    /\ UNCHANGED <<storage, now, callsLeft>>

\* saveTimelineProject after `await getTimelineProjects()`, lines 85-96: the list to
\* write is built and serialized here, AsyncStorage.setItem is entered
SaveRead(s) ==
    LET c == calls[s] IN
    /\ c.pc = "save_read"
    /\ \E fail \in BOOLEAN, t \in now..MaxClock :
          /\ Fault(fail)
          /\ DateNow(t)
          /\ calls' = [calls EXCEPT
                ![s].pc = "save_write",
                ![s].project = <<[c.project[1] EXCEPT !.updatedAt = t]>>,
                ![s].pending = Upsert(GetTimelineProjects(fail), c.project[1], t)]
    /\ UNCHANGED <<storage, callsLeft>>

\* saveTimelineProject after `await AsyncStorage.setItem(...)`, lines 96-99: a throw
\* is caught and logged; either way the caller's await resolves and the call returns
SaveWrite(s) ==
    LET c == calls[s] IN
    /\ c.pc = "save_write"
    /\ \E fail \in BOOLEAN :
          /\ Fault(fail)
          /\ storage' = IF fail THEN storage ELSE c.pending
          /\ calls' = [calls EXCEPT ![s].pc = "done", ![s].status = "ok",
                                    ![s].wrote = ~fail, ![s].pending = <<>>]
    /\ UNCHANGED <<now, callsLeft>>

\* deleteTimelineProject after `await getTimelineProjects()`, lines 105-107
DeleteProjectRead(s) ==
    LET c == calls[s] IN
    /\ c.pc = "delete_read"
    /\ \E fail \in BOOLEAN :
          /\ Fault(fail)
          /\ calls' = [calls EXCEPT
                ![s].pc = "delete_write",
                ![s].pending = FilterOutId(GetTimelineProjects(fail), c.projectId)]
    /\ UNCHANGED <<storage, now, callsLeft>>

\* deleteTimelineProject after `await AsyncStorage.setItem(...)`, lines 107-110
DeleteProjectWrite(s) ==
    LET c == calls[s] IN
    /\ c.pc = "delete_write"
    /\ \E fail \in BOOLEAN :
          /\ Fault(fail)
          /\ storage' = IF fail THEN storage ELSE c.pending
          /\ calls' = [calls EXCEPT ![s].pc = "done", ![s].status = "ok",
                                    ![s].wrote = ~fail, ![s].pending = <<>>]
    /\ UNCHANGED <<now, callsLeft>>

----------------------------------------------------------------------------
(* Data service calls.  A call awaits getItem, then setItem, then the remote     *)
(* request; each await is one step.  getItem and setItem are outside any         *)
(* try/catch, the remote request is inside one.                                  *)

\* the data service at module load: no user or creation stored, the settings
\* absent or stored by an earlier run (initSupabaseFromStorage is still to read
\* them), the remote reachable or not, AsyncStorage throwing up to MaxFaults times
InitData ==
    /\ storage = <<>>
    /\ now = 0
    /\ calls = [s \in Slots |-> IdleCall]
    /\ callsLeft = 0
    /\ faultsLeft = MaxFaults
    /\ mixer = IdleMixer
    /\ \E stored \in {<<>>} \cup {<<settings>> : settings \in GlobalSettings} :
          localStore = [EmptyLocalStore EXCEPT !.luxe_global_settings = stored]
    /\ supabaseInstance = "null"
    /\ online \in BOOLEAN
    /\ remoteTables = EmptyRemoteTables
    /\ dataCall = IdleDataCall
    /\ dataCallsLeft = MaxDataCalls
    /\ RestInit

CanStartData == dataCall.pc \in {"idle", "done"} /\ dataCallsLeft > 0

\* syncUser up to `await AsyncStorage.getItem('luxe_users')`, line 39
SyncUser ==
    /\ CanStartData
    /\ \E user \in Users :
          dataCall' = [IdleDataCall EXCEPT !.op = "syncUser", !.pc = "local_get",
                                           !.record = user]
    /\ dataCallsLeft' = dataCallsLeft - 1
    /\ UNCHANGED <<localStore, supabaseInstance, online, remoteTables, faultsLeft>>

\* saveCreation up to `await AsyncStorage.getItem(...)`, line 117
SaveCreation ==
    /\ CanStartData
    /\ \E creation \in Creations, userId \in UserIds :
          dataCall' = [IdleDataCall EXCEPT !.op = "saveCreation", !.pc = "local_get",
                                           !.record = creation, !.userId = userId]
    /\ dataCallsLeft' = dataCallsLeft - 1
    /\ UNCHANGED <<localStore, supabaseInstance, online, remoteTables, faultsLeft>>

\* saveGlobalSettings up to `await AsyncStorage.setItem('luxe_global_settings', ...)`,
\* line 281
SaveGlobalSettings ==
    /\ CanStartData
    /\ \E settings \in GlobalSettings :
          dataCall' = [IdleDataCall EXCEPT !.op = "saveGlobalSettings", !.pc = "settings_set",
                                           !.record = settings]
    /\ dataCallsLeft' = dataCallsLeft - 1
    /\ UNCHANGED <<localStore, supabaseInstance, online, remoteTables, faultsLeft>>

\* lines 40-46: users[index] = user when the id is stored, users.push(user) otherwise
UsersWith(users, user) ==
    LET index == FindIndexById(users, user.id)
    IN IF index > 0 THEN [users EXCEPT ![index] = user] ELSE Append(users, user)

\* line 119: creations.unshift(creation)
CreationsWith(creations, creation) == <<creation>> \o creations

\* getItem resolves: the list to store is built (lines 40-46, 118-119), or the
\* rejection leaves the function
DataLocalRead ==
    /\ dataCall.pc = "local_get"
    /\ \E fail \in BOOLEAN :
          /\ Fault(fail)
          /\ dataCall' =
                IF fail
                THEN [dataCall EXCEPT !.pc = "done", !.status = StorageError]
                ELSE [dataCall EXCEPT
                        !.pc = "local_set",
                        !.pending =
                           IF dataCall.op = "syncUser"
                           THEN UsersWith(localStore.luxe_users, dataCall.record)
                           ELSE CreationsWith(localStore.luxe_creations[dataCall.userId],
                                              dataCall.record)]
    /\ UNCHANGED <<localStore, supabaseInstance, online, remoteTables, dataCallsLeft>>

\* lines 51-55, 124-128: if (!supabase) return
ClientMissing(instance) == instance = "null"

\* setItem resolves (lines 47, 120), or its rejection leaves the function; then
\* getSupabase(): without a client the function returns, with one the request
\* is sent
DataLocalWrite ==
    /\ dataCall.pc = "local_set"
    /\ \E fail \in BOOLEAN :
          /\ Fault(fail)
          /\ IF fail
             THEN /\ dataCall' = [dataCall EXCEPT !.pc = "done", !.status = StorageError,
                                                  !.pending = <<>>]
                  /\ UNCHANGED localStore
             ELSE /\ localStore' =
                        IF dataCall.op = "syncUser"
                        THEN [localStore EXCEPT !.luxe_users = dataCall.pending]
                        ELSE [localStore EXCEPT
                                 !.luxe_creations[dataCall.userId] = dataCall.pending]
                  /\ dataCall' =
                        IF ClientMissing(supabaseInstance)
                        THEN [dataCall EXCEPT !.pc = "done", !.status = "ok",
                                              !.remote = "skipped", !.pending = <<>>]
                        ELSE [dataCall EXCEPT !.pc = "remote", !.remote = "pending",
                                              !.pending = <<>>]
    /\ UNCHANGED <<supabaseInstance, online, remoteTables, dataCallsLeft>>

\* lines 285-288: initSupabase runs only when both the URL and the key are set,
\* and sets the singleton; nothing ever sets it back to null
InstanceAfterSave(instance, settings) ==
    IF HasCredentials(settings) THEN "client" ELSE instance

\* saveGlobalSettings after setItem (lines 281-294), or setItem's rejection leaves
\* the function: the client is re-initialized when the settings hold both
\* credentials, then getSupabase() decides whether the request is sent
SettingsLocalWrite ==
    /\ dataCall.pc = "settings_set"
    /\ \E fail \in BOOLEAN :
          /\ Fault(fail)
          /\ IF fail
             THEN /\ dataCall' = [dataCall EXCEPT !.pc = "done", !.status = StorageError]
                  /\ UNCHANGED <<localStore, supabaseInstance>>
             ELSE LET instance == InstanceAfterSave(supabaseInstance, dataCall.record)
                  IN /\ localStore' =
                           [localStore EXCEPT !.luxe_global_settings = <<dataCall.record>>]
                     /\ supabaseInstance' = instance
                     /\ dataCall' =
                           IF ClientMissing(instance)
                           THEN [dataCall EXCEPT !.pc = "done", !.status = "ok",
                                                 !.remote = "skipped"]
                           ELSE [dataCall EXCEPT !.pc = "remote", !.remote = "pending"]
    /\ UNCHANGED <<online, remoteTables, dataCallsLeft>>

\* upsert into profiles and into global_settings: the row replaces the row with
\* its id; insert into creations: the row is added
RemoteWith(tables, op, record, userId) ==
    IF op = "syncUser"
    THEN [tables EXCEPT !.profiles =
            {r \in tables.profiles : r.id # record.id} \cup {ProfileRow(record)}]
    ELSE IF op = "saveGlobalSettings"
    THEN [tables EXCEPT !.global_settings = {SettingsRow(record)}]
    ELSE [tables EXCEPT !.creations = tables.creations \cup {CreationRow(record, userId)}]

\* faulty variant: the catch re-throws
StatusAfterRemoteRethrown(outcome) == IF outcome = "threw" THEN "remote error" ELSE "ok"

\* lines 57-75, 130-153: `if (error) console.error(...)` and `catch (e) { console.error(...) }`
\* only log, the function returns normally whatever the request did
StatusAfterRemote(outcome) == "ok"

\* the remote request resolves: it succeeds when the mirror is reachable, and
\* otherwise returns { error } or throws
DataRemoteResolve ==
    /\ dataCall.pc = "remote"
    /\ \E outcome \in (IF online THEN {"ok"} ELSE {"error", "threw"}) :
          /\ remoteTables' =
                IF outcome = "ok"
                THEN RemoteWith(remoteTables, dataCall.op, dataCall.record, dataCall.userId)
                ELSE remoteTables
          /\ dataCall' = [dataCall EXCEPT !.pc = "done", !.remote = outcome,
                                          !.status = StatusAfterRemote(outcome)]
    /\ UNCHANGED <<localStore, supabaseInstance, online, dataCallsLeft, faultsLeft>>

\* initSupabaseFromStorage, lines 301-314, started at module load: the settings
\* stored are read and, when they hold a URL and a key, initSupabase sets the
\* singleton
InitSupabase ==
    /\ supabaseInstance = "null"
    /\ localStore.luxe_global_settings # <<>>
    /\ HasCredentials(localStore.luxe_global_settings[1])
    /\ supabaseInstance' = "client"
    /\ UNCHANGED <<localStore, online, remoteTables, dataCall, dataCallsLeft, faultsLeft>>

\* the network: the remote mirror becomes reachable or unreachable
ConnectionChanges ==
    /\ online' = ~online
    /\ UNCHANGED <<localStore, supabaseInstance, remoteTables, dataCall, dataCallsLeft,
                   faultsLeft>>

DataResume == DataLocalRead \/ DataLocalWrite \/ SettingsLocalWrite \/ DataRemoteResolve

NextData ==
    /\ \/ SyncUser
       \/ SaveCreation
       \/ SaveGlobalSettings
       \/ DataResume
       \/ InitSupabase
       \/ ConnectionChanges
    /\ UNCHANGED <<storage, now, calls, callsLeft, mixer, restVars>>

\* getTimelinePreview(project), lines 277-292: synchronous, on a project the screen
\* holds (one that is stored); nothing is read from or written to AsyncStorage
GetTimelinePreview(s) ==
    /\ CanStart(s)
    /\ UNCHANGED now
    /\ \E projectId \in StoredIds :
          LET found == FindProject(storage, projectId)
          IN Begin(s, [IdleCall EXCEPT !.op = "getTimelinePreview", !.pc = "done",
                                       !.projectId = projectId,
                                       !.project = found,
                                       !.status = "ok",
                                       !.ret = <<[segments |-> PreviewSegments(found[1])]>>])

Step(s) ==
    \/ CreateTimelineProject(s)
    \/ AddKeyframe(s)
    \/ UpdateKeyframe(s)
    \/ DeleteKeyframe(s)
    \/ GenerateAudioReactiveKeyframes(s)
    \/ ExportTimelineFrames(s)
    \/ DeleteTimelineProject(s)
    \/ AddKeyframeResume(s)
    \/ UpdateKeyframeResume(s)
    \/ DeleteKeyframeResume(s)
    \/ GenerateResume(s)
    \/ ExportResume(s)
    \/ SaveRead(s)
    \/ SaveWrite(s)
    \/ DeleteProjectRead(s)
    \/ DeleteProjectWrite(s)

\* the calls run one after another
Next == (Step(MainSlot) \/ GetTimelinePreview(MainSlot)) /\ UNCHANGED <<mixer, dataVars, restVars>>

\* two calls may be in flight at once
NextConc == (\E s \in Slots : Step(s)) /\ UNCHANGED <<mixer, dataVars, restVars>>

\* the style mixer alone: the timeline store is not touched
NextStyles == (MixStyles \/ ApplyMixedStylesToPrompt) /\ UNCHANGED <<timelineVars, dataVars, restVars>>

Spec == Init /\ [][Next]_vars
SpecIO == InitIO /\ [][Next]_vars
SpecConc == InitConc /\ [][NextConc]_vars
SpecStyles == Init /\ [][NextStyles]_vars
SpecData == InitData /\ [][NextData]_vars
\* every awaited promise settles
SpecDataFair == InitData /\ [][NextData]_vars /\ WF_dataVars(DataResume)

----------------------------------------------------------------------------
(* Beta invites: fetchBetaInvites, createBetaInvite, validateBetaInvite.  Both   *)
(* functions read the key, build the new list and write it back, with an await  *)
(* before the read and before the write: each is a step, and two calls may be in *)
(* flight.                                                                       *)

InitInvites ==
    /\ TimelineIdle
    /\ mixer = IdleMixer
    /\ DataInit
    /\ invites = [IdleInvites EXCEPT !.callsLeft = MaxInviteCalls]
    /\ history = IdleHistory
    /\ workspaces = IdleWorkspaces
    /\ collab = IdleCollab
    /\ studio = IdleStudio

CanStartInvite(s) == invites.calls[s].pc \in {"idle", "done"} /\ invites.callsLeft > 0

\* createBetaInvite up to `await fetchBetaInvites()`: the code is drawn and the
\* invite built with usedCount 0 (createdAt plays no part and is left out)
CreateBetaInvite(s) ==
    /\ CanStartInvite(s)
    /\ invites.issued < MaxInvites
    /\ \E maxUses \in MaxUsesInputs :
          LET code == InviteCode(invites.issued + 1)
              invite == [code |-> code, maxUses |-> maxUses, usedCount |-> 0]
          IN invites' = [invites EXCEPT
                 !.calls[s] = [IdleInviteCall EXCEPT !.op = "createBetaInvite", !.pc = "fetch",
                                                     !.code = code, !.invite = <<invite>>],
                 !.issued = @ + 1,
                 !.callsLeft = @ - 1]

\* validateBetaInvite up to `await fetchBetaInvites()`
ValidateBetaInvite(s) ==
    /\ CanStartInvite(s)
    /\ \E code \in {InviteCode(n) : n \in 1..invites.issued} \cup {UnknownCode} :
          invites' = [invites EXCEPT
              !.calls[s] = [IdleInviteCall EXCEPT !.op = "validateBetaInvite", !.pc = "fetch",
                                                  !.code = code],
              !.callsLeft = @ - 1]

\* current.find((i) => i.code === code): the index of the first, 0 when none
FindInvite(current, code) ==
    IF \E i \in 1..Len(current) : current[i].code = code
    THEN CHOOSE i \in 1..Len(current) :
            /\ current[i].code = code
            /\ \A j \in 1..(i - 1) : current[j].code # code
    ELSE 0

\* line 404: invite.usedCount >= invite.maxUses
Exhausted(invite) == invite.usedCount >= invite.maxUses

\* fetchBetaInvites resolves and the function runs on to its setItem or its return
FetchBetaInvites(s) ==
    LET call == invites.calls[s]
        current == invites.luxe_beta_invites
        i == FindInvite(current, call.code)
    IN /\ call.pc = "fetch"
       /\ invites' = [invites EXCEPT !.calls[s] =
             IF call.op = "createBetaInvite"
             THEN [call EXCEPT !.pc = "set", !.pending = current \o call.invite]
             ELSE IF i = 0 \/ Exhausted(current[i])
             THEN [call EXCEPT !.pc = "done", !.ret = <<FALSE>>]
             ELSE [call EXCEPT !.pc = "set",
                               !.pending = [current EXCEPT ![i].usedCount = @ + 1]]]

\* AsyncStorage.setItem('luxe_beta_invites', ...) resolves and the function returns
SetBetaInvites(s) ==
    LET call == invites.calls[s]
    IN /\ call.pc = "set"
       /\ invites' = [invites EXCEPT
             !.luxe_beta_invites = call.pending,
             !.calls[s] = [call EXCEPT !.pc = "done",
                 !.ret = IF call.op = "createBetaInvite" THEN call.invite ELSE <<TRUE>>],
             !.returnedTrue = IF call.op = "validateBetaInvite"
                              THEN [@ EXCEPT ![call.code] = @ + 1] ELSE @]

NextInvites ==
    /\ \E s \in Slots :
          \/ CreateBetaInvite(s)
          \/ ValidateBetaInvite(s)
          \/ FetchBetaInvites(s)
          \/ SetBetaInvites(s)
    /\ UNCHANGED <<timelineVars, mixer, dataVars, history, workspaces, collab, studio>>

SpecInvites == InitInvites /\ [][NextInvites]_vars

----------------------------------------------------------------------------
(* Prompt history: src/lib/animation-timeline.ts, lines 341-552.  The calls run  *)
(* one after another; each action is a whole call, from its getItem to its       *)
(* setItem.  An item is its id, its prompt and isFavorite: the category, the     *)
(* timestamp, the metadata and the tags are carried along unread.                *)

\* `prompt_${Date.now()}`
PromptId(t) == <<"prompt", t>>

HistoryItem(id, prompt) == [id |-> id, prompt |-> prompt, isFavorite |-> FALSE]

HistoryPrompts == {"a cat"}

\* the ids of the items in the short files imported
ImportedIds == {PromptId(0), PromptId(1)}
ImportedItems == {HistoryItem(id, "imported") : id \in ImportedIds}

\* the parsed files passed to importPromptHistory: the short lists, a list with
\* one id twice under different prompts, and a list of one item more than the
\* history may hold
ImportFiles ==
    {<<>>}
    \cup {<<a>> : a \in ImportedItems}
    \cup {<<a, b>> : a, b \in ImportedItems}
    \cup {<<HistoryItem(PromptId(0), "imported"), HistoryItem(PromptId(0), "imported again")>>}
    \cup {[i \in 1..(MAX_HISTORY_ITEMS + 1) |-> HistoryItem(PromptId(i - 1), "imported")]}

InvalidJson == "SyntaxError"
MissingPromptId == <<"prompt", -1>>
PromptIdInputs ==
    {item.id : item \in Range(history.luxe_prompt_history)} \cup {MissingPromptId}

InitHistory ==
    /\ TimelineIdle
    /\ mixer = IdleMixer
    /\ DataInit
    /\ invites = IdleInvites
    /\ history = IdleHistory
    /\ workspaces = IdleWorkspaces
    /\ collab = IdleCollab
    /\ studio = IdleStudio

\* lines 384-386: if (history.length > MAX_HISTORY_ITEMS) history.splice(MAX_HISTORY_ITEMS)
Spliced(list) ==
    IF Len(list) > MAX_HISTORY_ITEMS THEN SubSeq(list, 1, MAX_HISTORY_ITEMS) ELSE list

\* the call writes the list and returns
HistoryReturns(call, list) ==
    history' = [luxe_prompt_history |-> list,
                   call |-> [call EXCEPT !.pre = history.luxe_prompt_history,
                                         !.status = "ok"]]

\* addPromptToHistory, lines 362-394: the item is put first, the list cut
AddPromptToHistory ==
    \E prompt \in HistoryPrompts, t \in now..MaxClock :
        LET item == HistoryItem(PromptId(t), prompt)
        IN /\ DateNow(t)
           /\ HistoryReturns([IdleHistoryCall EXCEPT !.op = "addPromptToHistory",
                                                     !.item = <<item>>],
                             Spliced(<<item>> \o history.luxe_prompt_history))

\* togglePromptFavorite, lines 426-439: nothing is written when the id is not found
TogglePromptFavorite ==
    \E promptId \in PromptIdInputs :
        LET list == history.luxe_prompt_history
            index == FindIndexById(list, promptId)
        IN /\ HistoryReturns([IdleHistoryCall EXCEPT !.op = "togglePromptFavorite",
                                                     !.promptId = promptId],
                             IF index > 0
                             THEN [list EXCEPT ![index].isFavorite = ~@]
                             ELSE list)
           /\ UNCHANGED now

\* deletePromptFromHistory, lines 442-451
DeletePromptFromHistory ==
    \E promptId \in PromptIdInputs :
        /\ HistoryReturns([IdleHistoryCall EXCEPT !.op = "deletePromptFromHistory",
                                                  !.promptId = promptId],
                          FilterOutId(history.luxe_prompt_history, promptId))
        /\ UNCHANGED now

\* clearPromptHistory, lines 517-524: the key is removed and reads as [] again
ClearPromptHistory ==
    /\ HistoryReturns([IdleHistoryCall EXCEPT !.op = "clearPromptHistory"], <<>>)
    /\ UNCHANGED now

\* faulty variant: of the items with one id the last is kept, in the place of the
\* first
UniqueKeepingLast(merged) ==
    LET Last(i) == \A j \in (i + 1)..Len(merged) : merged[j].id # merged[i].id
        First(i) == \A j \in 1..(i - 1) : merged[j].id # merged[i].id
        LastOf(i) == CHOOSE j \in i..Len(merged) : merged[j].id = merged[i].id /\ Last(j)
        firsts == {i \in 1..Len(merged) : First(i)}
        Nth(k) == CHOOSE i \in firsts : Cardinality({j \in firsts : j < i}) = k - 1
    IN [k \in 1..Cardinality(firsts) |-> merged[LastOf(Nth(k))]]

\* lines 543-545: merged.filter((item, index, self) =>
\*   index === self.findIndex(t => t.id === item.id)): the first item of each id
Unique(merged) ==
    LET firsts == {i \in 1..Len(merged) : FindIndexById(merged, merged[i].id) = i}
        Nth(k) == CHOOSE i \in firsts : Cardinality({j \in firsts : j < i}) = k - 1
    IN [k \in 1..Cardinality(firsts) |-> merged[Nth(k)]]

\* importPromptHistory, lines 536-552, on a file that parses: the imported items,
\* then the existing ones, the first of each id kept
ImportPromptHistory ==
    \E imported \in ImportFiles :
        /\ HistoryReturns([IdleHistoryCall EXCEPT !.op = "importPromptHistory",
                                                  !.imported = imported],
                          Unique(imported \o history.luxe_prompt_history))
        /\ UNCHANGED now

\* importPromptHistory on a text JSON.parse rejects: the error is logged and thrown
\* again, nothing is written
ImportPromptHistoryInvalid ==
    /\ history' = [history EXCEPT
          !.call = [IdleHistoryCall EXCEPT !.op = "importPromptHistory",
                                           !.pre = history.luxe_prompt_history,
                                           !.status = InvalidJson]]
    /\ UNCHANGED now

NextHistory ==
    /\ \/ AddPromptToHistory
       \/ TogglePromptFavorite
       \/ DeletePromptFromHistory
       \/ ClearPromptHistory
       \/ ImportPromptHistory
       \/ ImportPromptHistoryInvalid
    /\ UNCHANGED <<storage, calls, callsLeft, faultsLeft, mixer, dataVars,
                   invites, workspaces, collab, studio>>

SpecHistory == InitHistory /\ [][NextHistory]_vars

----------------------------------------------------------------------------
(* Workspaces: src/lib/collaboration.ts, lines 62-196.  The calls run one after  *)
(* another, with no Supabase client configured (createWorkspace then returns at  *)
(* line 90, before the insert into the remote table); each action is a whole     *)
(* call.  A member is its userId, userName, role and isOnline; joinedAt, the     *)
(* cursor and the workspace's name and dates are carried along unread.           *)

WorkspaceUsers == {"1", "2"}
UserName(userId) == IF userId = "1" THEN "Ann" ELSE "Bea"

\* `workspace_${Date.now()}`
WorkspaceId(t) == <<"workspace", t>>

Member(userId, role) ==
    [userId |-> userId, userName |-> UserName(userId), role |-> role, isOnline |-> TRUE]

\* lines 67-83: the workspace createWorkspace builds
NewWorkspace(t, ownerId) ==
    [id |-> WorkspaceId(t), ownerId |-> ownerId, members |-> <<Member(ownerId, "owner")>>]

\* workspaces.find(w => w.id === workspaceId): <<w>>, <<>> when there is none
FindWorkspace(list, workspaceId) ==
    LET index == FindIndexById(list, workspaceId)
    IN IF index = 0 THEN <<>> ELSE <<list[index]>>

\* saveWorkspace, lines 108-123: the workspace replaces the stored one of its id,
\* or is pushed
SavedWorkspaces(list, workspace) ==
    LET index == FindIndexById(list, workspace.id)
    IN IF index > 0 THEN [list EXCEPT ![index] = workspace] ELSE Append(list, workspace)

IsMember(workspace, userId) ==
    \E i \in 1..Len(workspace.members) : workspace.members[i].userId = userId

\* members.map(m => m.userId === userId ? { ...m, isOnline } : m)
WithOnline(members, userId, isOnline) ==
    [i \in 1..Len(members) |->
        IF members[i].userId = userId
        THEN [members[i] EXCEPT !.isOnline = isOnline]
        ELSE members[i]]

\* faulty variant: the user is pushed as an editor whether a member or not
JoinedMembersPushed(workspace, userId) ==
    Append(workspace.members, Member(userId, "editor"))

\* lines 157-173: a member is set online, anyone else is pushed as an editor
JoinedMembers(workspace, userId) ==
    IF IsMember(workspace, userId)
    THEN WithOnline(workspace.members, userId, TRUE)
    ELSE Append(workspace.members, Member(userId, "editor"))

WorkspaceIdInputs ==
    {w.id : w \in Range(workspaces.luxe_workspaces)} \cup {NoWorkspaceId}

InitWorkspaces ==
    /\ TimelineIdle
    /\ mixer = IdleMixer
    /\ DataInit
    /\ invites = IdleInvites
    /\ history = IdleHistory
    /\ workspaces = IdleWorkspaces
    /\ collab = IdleCollab
    /\ studio = IdleStudio

\* the call writes the list (when it writes) and returns
WorkspaceReturns(call, list, ret) ==
    workspaces' = [luxe_workspaces |-> list,
                   call |-> [call EXCEPT !.pre = workspaces.luxe_workspaces, !.ret = ret]]

\* createWorkspace, lines 62-106
CreateWorkspace ==
    /\ ClientMissing(supabaseInstance)
    /\ \E ownerId \in WorkspaceUsers, t \in now..MaxClock :
          LET workspace == NewWorkspace(t, ownerId)
          IN /\ DateNow(t)
             /\ WorkspaceReturns([IdleWorkspaceCall EXCEPT !.op = "createWorkspace",
                                      !.workspaceId = workspace.id, !.userId = ownerId],
                                 SavedWorkspaces(workspaces.luxe_workspaces, workspace),
                                 <<workspace>>)

\* joinWorkspace, lines 146-178: null when the workspace is not stored
JoinWorkspace ==
    \E workspaceId \in WorkspaceIdInputs, userId \in WorkspaceUsers :
        LET list == workspaces.luxe_workspaces
            found == FindWorkspace(list, workspaceId)
            call == [IdleWorkspaceCall EXCEPT !.op = "joinWorkspace",
                        !.workspaceId = workspaceId, !.userId = userId]
        IN /\ IF found = <<>>
              THEN WorkspaceReturns(call, list, <<>>)
              ELSE LET workspace ==
                           [found[1] EXCEPT !.members = JoinedMembers(found[1], userId)]
                   IN WorkspaceReturns(call, SavedWorkspaces(list, workspace), <<workspace>>)
           /\ UNCHANGED now

\* leaveWorkspace, lines 181-196
LeaveWorkspace ==
    \E workspaceId \in WorkspaceIdInputs, userId \in WorkspaceUsers :
        LET list == workspaces.luxe_workspaces
            found == FindWorkspace(list, workspaceId)
            call == [IdleWorkspaceCall EXCEPT !.op = "leaveWorkspace",
                        !.workspaceId = workspaceId, !.userId = userId]
        IN /\ IF found = <<>>
              THEN WorkspaceReturns(call, list, <<>>)
              ELSE LET workspace ==
                           [found[1] EXCEPT
                               !.members = WithOnline(found[1].members, userId, FALSE)]
                   IN WorkspaceReturns(call, SavedWorkspaces(list, workspace), <<>>)
           /\ UNCHANGED now

NextWorkspaces ==
    /\ \/ CreateWorkspace
       \/ JoinWorkspace
       \/ LeaveWorkspace
    /\ UNCHANGED <<storage, calls, callsLeft, faultsLeft, mixer, dataVars,
                   invites, history, collab, studio>>

SpecWorkspaces == InitWorkspaces /\ [][NextWorkspaces]_vars

----------------------------------------------------------------------------
(* Collaborative prompts: src/lib/collaboration.ts, lines 233-293, and the       *)
(* workspace screen that holds them (src/unnamed/part_001, lines 396-487).  Each *)
(* editor runs the app on a device of their own, in one workspace; a call has    *)
(* no await before its return and is one step; a payload broadcast reaches the   *)
(* other editor's onPromptUpdate at any later time, or never.                    *)

WorkspaceOfPrompts == WorkspaceId(0)
Contents == {"a fox", "a red fox"}

InitCollab ==
    /\ TimelineIdle
    /\ mixer = IdleMixer
    /\ DataInit
    /\ invites = IdleInvites
    /\ history = IdleHistory
    /\ workspaces = IdleWorkspaces
    /\ \E client \in [Editors -> {"null", "client"}] :
          collab = [IdleCollab EXCEPT !.client = client, !.callsLeft = MaxPromptCalls]
    /\ studio = IdleStudio

\* lines 238-245: the prompt createCollaborativePrompt builds
NewCollaborativePrompt(content, authorId, t) ==
    [workspaceId |-> WorkspaceOfPrompts, promptId |-> PromptId(t), content |-> content,
     editedBy |-> authorId, version |-> 1, timestamp |-> t]

\* lines 270-276: the prompt updateCollaborativePrompt builds
UpdatedCollaborativePrompt(prompt, newContent, editorId, t) ==
    [prompt EXCEPT !.content = newContent, !.editedBy = editorId,
                   !.version = prompt.version + 1, !.timestamp = t]

\* channel.send({ type: 'broadcast', event: 'prompt_update', payload }): nothing is
\* sent while getSupabase() gives null
Broadcast(sent, client, payload) ==
    IF ClientMissing(client) THEN sent ELSE sent \cup {payload}

\* createCollaborativePrompt, lines 233-262, called by handleSendPrompt, which puts
\* the prompt returned first in the screen's list
CreateCollaborativePrompt(e) ==
    /\ collab.callsLeft > 0
    /\ \E content \in Contents, t \in now..MaxClock :
          LET prompt == NewCollaborativePrompt(content, e, t)
          IN /\ DateNow(t)
             /\ collab' = [collab EXCEPT
                   !.held[e] = @ \cup {prompt},
                   !.sent = Broadcast(@, collab.client[e], prompt),
                   !.call = [op |-> "createCollaborativePrompt", editor |-> e,
                             prompt |-> <<>>, ret |-> <<prompt>>],
                   !.callsLeft = @ - 1]

\* updateCollaborativePrompt, lines 265-293, on a prompt the editor holds
UpdateCollaborativePrompt(e) ==
    /\ collab.callsLeft > 0
    /\ \E prompt \in collab.held[e], newContent \in Contents, t \in now..MaxClock :
          LET updated == UpdatedCollaborativePrompt(prompt, newContent, e, t)
          IN /\ DateNow(t)
             /\ collab' = [collab EXCEPT
                   !.held[e] = {p \in @ : p.promptId # prompt.promptId} \cup {updated},
                   !.sent = Broadcast(@, collab.client[e], updated),
                   !.call = [op |-> "updateCollaborativePrompt", editor |-> e,
                             prompt |-> <<prompt>>, ret |-> <<updated>>],
                   !.callsLeft = @ - 1]

\* onPromptUpdate, part_001 lines 423-425: a payload another editor sent arrives and
\* takes the place of the prompts of its promptId
OnPromptUpdate(e) ==
    /\ ~ClientMissing(collab.client[e])
    /\ \E payload \in collab.sent :
          /\ payload.editedBy # e
          /\ collab' = [collab EXCEPT
                !.held[e] = {p \in @ : p.promptId # payload.promptId} \cup {payload}]
    /\ UNCHANGED now

NextCollab ==
    /\ \E e \in Editors :
          \/ CreateCollaborativePrompt(e)
          \/ UpdateCollaborativePrompt(e)
          \/ OnPromptUpdate(e)
    /\ UNCHANGED <<storage, calls, callsLeft, faultsLeft, mixer, dataVars,
                   invites, history, workspaces, studio>>

SpecCollab == InitCollab /\ [][NextCollab]_vars

----------------------------------------------------------------------------
(* The studio screen: src/app/(tabs)/index.tsx, handleGenerate (lines 52-128)    *)
(* and the button that calls it (lines 314-328).  handleGenerate runs to its     *)
(* first await in one step and resumes once per awaited promise; it reads the    *)
(* mode, the prompt, the user and generatedUrl of the render in which the button *)
(* was pressed, so the screen's inputs change between calls only.                *)

Modes == {"image", "video", "animation", "analyze", "speech"}
StudioPrompts == {"", " ", "a cat"}
StudioUsers == {NoUser, "1"}
GeneratedUrl == "https://picsum.photos/seed/0/800/600"

\* prompt.trim()
Trim(prompt) == IF prompt = " " THEN "" ELSE prompt

\* what an awaited call of the generation service can do: resolve with success
\* and a url, resolve without success, or reject
GenerationOutcomes == {"success", "failure", "throws"}
Settlements == {"resolves", "throws"}

InitStudio ==
    /\ TimelineIdle
    /\ mixer = IdleMixer
    /\ DataInit
    /\ invites = IdleInvites
    /\ history = IdleHistory
    /\ workspaces = IdleWorkspaces
    /\ collab = IdleCollab
    /\ \E user \in StudioUsers : studio = [IdleStudio EXCEPT !.user = user]

StudioAtRest == studio.pc \in {"idle", "done"}

\* setMode, line 32
SetMode ==
    /\ StudioAtRest
    /\ \E mode \in Modes : studio' = [studio EXCEPT !.mode = mode]

\* setPrompt, line 33
SetPrompt ==
    /\ StudioAtRest
    /\ \E prompt \in StudioPrompts : studio' = [studio EXCEPT !.prompt = prompt]

\* faulty variant: without the finally block, isGenerating is reset only where
\* the body itself resets it
GeneratingAfterWithoutFinally(outcome) ==
    outcome \notin {"no_image", "analyzed", "not_implemented"}

\* lines 85, 90, 96 and 125-127: setIsGenerating(false) before the three returns
\* inside the try block, and in the finally block on every way out of it
GeneratingAfter(outcome) == FALSE

\* handleGenerate leaves the try block by the path `outcome`
StudioReturns(outcome) ==
    [studio EXCEPT !.pc = "done", !.outcome = outcome,
                   !.isGenerating = GeneratingAfter(outcome)]

\* the Pressable's onPress, lines 314-316: handleGenerate up to its first await or
\* its return.  The two validations return before setIsGenerating(true).
HandleGenerate ==
    /\ StudioAtRest
    /\ ~studio.isGenerating
    /\ studio' =
          IF Trim(studio.prompt) = ""
          THEN [studio EXCEPT !.pc = "done", !.outcome = "no_prompt"]
          ELSE IF studio.user = NoUser
          THEN [studio EXCEPT !.pc = "done", !.outcome = "no_user"]
          ELSE IF studio.mode \in {"image", "video", "speech"}
          THEN [studio EXCEPT !.pc = "generate", !.outcome = "", !.isGenerating = TRUE]
          ELSE IF studio.mode = "analyze"
          THEN IF studio.generatedUrl = NoUrl
               THEN StudioReturns("no_image")
               ELSE [studio EXCEPT !.pc = "analyze", !.outcome = "", !.isGenerating = TRUE]
          ELSE StudioReturns("not_implemented")

\* generateImage / generateVideo / generateSpeech settles, lines 67-108
GenerationSettles ==
    /\ studio.pc = "generate"
    /\ \E outcome \in GenerationOutcomes :
          studio' =
              IF outcome = "success"
              THEN [studio EXCEPT !.pc = "save", !.generatedUrl = GeneratedUrl]
              ELSE IF outcome = "failure"
              THEN StudioReturns("generation_failed")
              ELSE StudioReturns("generation_threw")

\* analyzeImage settles, lines 88-91
AnalysisSettles ==
    /\ studio.pc = "analyze"
    /\ \E outcome \in Settlements :
          studio' = IF outcome = "resolves"
                    THEN StudioReturns("analyzed")
                    ELSE StudioReturns("analysis_threw")

\* saveCreation settles, line 116: it rejects when AsyncStorage does
SaveCreationSettles ==
    /\ studio.pc = "save"
    /\ \E outcome \in Settlements :
          studio' = IF outcome = "resolves"
                    THEN StudioReturns("saved")
                    ELSE StudioReturns("save_threw")

StudioSettles == GenerationSettles \/ AnalysisSettles \/ SaveCreationSettles

NextStudio ==
    /\ \/ SetMode
       \/ SetPrompt
       \/ HandleGenerate
       \/ StudioSettles
    /\ UNCHANGED <<timelineVars, mixer, dataVars, invites, history, workspaces, collab>>

SpecStudio == InitStudio /\ [][NextStudio]_vars
\* every awaited promise settles
SpecStudioFair == InitStudio /\ [][NextStudio]_vars /\ WF_studio(StudioSettles)

----------------------------------------------------------------------------
(* What the caller of the latest call in the main slot sees *)

Main == calls[MainSlot]

Returned(op) == Main.pc = "done" /\ Main.op = op

\* the project the call names, as stored when the call started and as stored now
Before == FindProject(Main.pre, Main.projectId)
After == FindProject(storage, Main.projectId)

Times_(kfs) == [i \in 1..Len(kfs) |-> kfs[i].time]
Ids_(kfs) == [i \in 1..Len(kfs) |-> kfs[i].id]

----------------------------------------------------------------------------
\* C1: with the calls run one after another, the keyframes of every persisted
\* project are sorted non-decreasing by time, at every moment and so after each call.
KeyframesSortedByTime ==
    \A p \in Range(storage) : IsSortedByTime(p.keyframes)

\* an updateKeyframe has returned whose new time put a keyframe out of order before
\* the sort: the last of three or more keyframes moved to time 0
C1_Witness ==
    /\ Returned("updateKeyframe") /\ Main.status = "ok"
    /\ "time" \in DOMAIN Main.updates
    /\ Before # <<>> /\ After # <<>>
    /\ Len(After[1].keyframes) >= 3
    /\ LET i == FindIndexById(Before[1].keyframes, Main.keyframeId)
       IN ~IsSortedByTime([Before[1].keyframes EXCEPT ![i].time = Main.updates.time])

\* C2: in every persisted project no two keyframes have the same time.
KeyframeTimesUnique ==
    \A p \in Range(storage) :
        \A i, j \in 1..Len(p.keyframes) :
            i # j => p.keyframes[i].time # p.keyframes[j].time

\* C3: addKeyframe on a project id that is not stored, and updateKeyframe on an
\* unknown project id or an unknown keyframe id, end in a not-found error, and the
\* store stays as it was when the call started.
UnknownTargetFailsNotFound ==
    (Main.pc # "idle" /\ Main.op \in {"addKeyframe", "updateKeyframe"}) =>
        /\ Before = <<>> =>
              /\ storage = Main.pre
              /\ Main.pc = "done" => Main.status = NotFound
        /\ (/\ Main.op = "updateKeyframe"
            /\ Before # <<>>
            /\ \A k \in Range(Before[1].keyframes) : k.id # Main.keyframeId) =>
              /\ storage = Main.pre
              /\ Main.pc = "done" => Main.status = KeyframeNotFound

\* an updateKeyframe on a stored project and an id none of its keyframes has has
\* returned
C3_Witness ==
    /\ Returned("updateKeyframe")
    /\ Before # <<>>
    /\ Len(Before[1].keyframes) >= 2
    /\ \A k \in Range(Before[1].keyframes) : k.id # Main.keyframeId
    /\ Main.status = KeyframeNotFound

\* the keyframes of kfs whose id is not id, in their order
Without(kfs, id) ==
    LET Other(k) == k.id # id
    IN SelectSeq(kfs, Other)

\* the stored projects other than the one with this id
OtherProjects(projects, id) ==
    LET Other(p) == p.id # id
    IN SelectSeq(projects, Other)

\* what deleteKeyframe leaves of an existing project: every keyframe with the id is
\* gone, the others are kept in order, the other projects are untouched
KeyframeRemoved ==
    /\ Main.status = "ok"
    /\ After # <<>>
    /\ After[1].keyframes = Without(Before[1].keyframes, Main.keyframeId)
    /\ \A k \in Range(After[1].keyframes) : k.id # Main.keyframeId
    /\ OtherProjects(storage, Main.projectId) = OtherProjects(Main.pre, Main.projectId)

\* C4 as stated: deleteKeyframe on a project id that is not stored returns without
\* an error and leaves the store unchanged; on a stored project it removes every
\* keyframe with the id and persists the result.
DeleteKeyframeUnknownProjectIsSilent ==
    Returned("deleteKeyframe") =>
        IF Before = <<>> THEN Main.status = "ok" /\ storage = Main.pre
        ELSE KeyframeRemoved

\* C4 as amended: deleteKeyframe on a project id that is not stored fails with
\* 'Project not found' and leaves the store unchanged; on a stored project it removes
\* every keyframe with the id and persists the result.
DeleteKeyframeContract ==
    /\ (Main.op = "deleteKeyframe" /\ Before = <<>>) => storage = Main.pre
    /\ Returned("deleteKeyframe") =>
          IF Before = <<>> THEN Main.status = NotFound
          ELSE KeyframeRemoved

\* a deleteKeyframe has returned that removed two keyframes sharing the id
C4_Witness ==
    /\ Returned("deleteKeyframe") /\ Main.status = "ok"
    /\ Before # <<>> /\ After # <<>>
    /\ Len(After[1].keyframes) + 2 <= Len(Before[1].keyframes)

Mutators == {"createTimelineProject", "addKeyframe", "updateKeyframe", "deleteKeyframe"}

\* reading the call's project back from the store gives the call's mutated copy
MutationPersisted == FindProject(storage, Main.project[1].id) = Main.project

\* C5 as stated: whenever createTimelineProject, addKeyframe, updateKeyframe or
\* deleteKeyframe returns without an error the store holds the project with the
\* mutation applied, whatever the outcome of the store's reads and writes.
ReturnImpliesPersisted ==
    (Main.pc = "done" /\ Main.op \in Mutators /\ Main.status = "ok") => MutationPersisted

\* C5 as amended: whenever one of them returns without an error and its setItem
\* did not throw, the store holds the project with the mutation applied (also after
\* a failed read); when setItem throws, the error is caught and logged, the call
\* still returns without an error and the store is as it was when the call started.
ReturnImpliesPersistedUnlessWriteFailed ==
    (Main.pc = "done" /\ Main.op \in Mutators /\ Main.status = "ok") =>
        IF Main.wrote THEN MutationPersisted ELSE storage = Main.pre

\* an addKeyframe has returned without an error, its write done, after AsyncStorage
\* had thrown
C5_Witness ==
    /\ Returned("addKeyframe") /\ Main.status = "ok" /\ Main.wrote
    /\ faultsLeft < MaxFaults
    /\ Main.ret[1] \in Range(After[1].keyframes)

\* two addKeyframe calls on the same project have both returned a keyframe
BothAddsReturned ==
    /\ \A s \in Slots : /\ calls[s].pc = "done" /\ calls[s].op = "addKeyframe"
                        /\ calls[s].status = "ok"
    /\ calls["a"].projectId = calls["b"].projectId
    /\ calls["a"].ret # calls["b"].ret

\* each of the two read the project before the other's write: neither in-memory
\* copy holds the other's keyframe
AddsRaced ==
    /\ calls["a"].ret[1] \notin Range(calls["b"].project[1].keyframes)
    /\ calls["b"].ret[1] \notin Range(calls["a"].project[1].keyframes)

\* C6: when two concurrent addKeyframe calls on one project have each read it
\* before the other wrote, both return their keyframe and the persisted project
\* holds exactly one of the two: the whole record is overwritten, nothing (lock,
\* version check) prevents the loss.
ConcurrentAddsLoseOne ==
    (BothAddsReturned /\ AddsRaced) =>
        LET stored == FindProject(storage, calls["a"].projectId)
            hasA == calls["a"].ret[1] \in Range(stored[1].keyframes)
            hasB == calls["b"].ret[1] \in Range(stored[1].keyframes)
        IN stored # <<>> /\ (hasA \/ hasB) /\ ~(hasA /\ hasB)

\* both calls returned a keyframe, and only b's is in the persisted project
C6_Witness ==
    /\ BothAddsReturned /\ AddsRaced
    /\ LET stored == FindProject(storage, calls["a"].projectId)
       IN /\ stored # <<>>
          /\ calls["b"].ret[1] \in Range(stored[1].keyframes)
          /\ calls["a"].ret[1] \notin Range(stored[1].keyframes)

\* C7 as stated: every persisted project has at least two keyframes.
AtLeastTwoKeyframes ==
    \A p \in Range(storage) : Len(p.keyframes) >= 2

\* C7 as amended: createTimelineProject seeds exactly two keyframes, at time 0 and at
\* time 10 = duration, and addKeyframe, updateKeyframe and
\* generateAudioReactiveKeyframes never bring a count of two or more below two: a
\* persisted project with fewer than two keyframes had fewer than two when the
\* latest call started, or is the target of that call, a deleteKeyframe.
OnlyDeleteKeyframeGoesBelowTwo ==
    /\ (Returned("createTimelineProject") /\ Main.status = "ok") =>
          LET stored == FindProject(storage, Main.project[1].id)
          IN /\ stored # <<>>
             /\ stored[1].duration = 10 * TimeScale
             /\ Times_(stored[1].keyframes) = <<0, stored[1].duration>>
    /\ \A p \in Range(storage) :
          Len(p.keyframes) < 2 =>
             LET q == FindProject(Main.pre, p.id)
             IN \/ q # <<>> /\ Len(q[1].keyframes) < 2
                \/ Main.op = "deleteKeyframe" /\ Main.projectId = p.id

\* a generateAudioReactiveKeyframes has returned on a project that had exactly the
\* two seeded keyframes
C7_Witness ==
    /\ Returned("generateAudioReactiveKeyframes") /\ Main.status = "ok"
    /\ Before # <<>> /\ After # <<>>
    /\ Len(Before[1].keyframes) = 2
    /\ Len(After[1].keyframes) > 2

\* the beats strictly inside (0, duration), as indices into MockBeats
BeatsInside(project) ==
    {i \in 1..Len(MockBeats) : MockBeats[i] > 0 /\ MockBeats[i] < project.duration}

\* kfs holds, for each beat inside the timeline, exactly one keyframe made for it
OnePerBeat(kfs, project, prompt) ==
    \A i \in BeatsInside(project) :
        Cardinality({n \in 1..Len(kfs) :
            /\ kfs[n].id = <<"keyframe_beat", i - 1>>
            /\ kfs[n].time = MockBeats[i]
            /\ kfs[n].prompt = prompt
            /\ kfs[n].transitionType = "morph"
            /\ 2 * kfs[n].transitionDuration = TimeScale}) = 1

\* C8: after generateAudioReactiveKeyframes on a stored project the persisted
\* keyframes are the keyframe that was first, the keyframe that was last and one
\* new keyframe per beat inside (0, duration), and nothing else; the list is sorted,
\* audioUrl is the url given and audioReactive is true.
GenerateKeepsBoundariesAndBeats ==
    (Returned("generateAudioReactiveKeyframes") /\ Before # <<>>) =>
        /\ Main.status = "ok"
        /\ After # <<>>
        /\ LET old == Before[1].keyframes
               new == After[1].keyframes
           IN /\ old[1] \in Range(new)
              /\ old[Len(old)] \in Range(new)
              /\ OnePerBeat(new, Before[1], old[1].prompt)
              /\ Len(new) = 2 + Cardinality(BeatsInside(Before[1]))
              /\ IsSortedByTime(new)
        /\ After[1].audioUrl = Main.audioUrl
        /\ After[1].audioReactive

\* C9: after generateAudioReactiveKeyframes has returned on a stored 10-second
\* project, whatever calls produced it, no two entries of the keyframe list share an
\* id, and the list holds the boundary keyframes and one keyframe per beat.
GenerateLeavesNoDuplicate ==
    (Returned("generateAudioReactiveKeyframes") /\ Main.status = "ok" /\ Before # <<>>) =>
        /\ After # <<>>
        /\ LET old == Before[1].keyframes
               new == After[1].keyframes
           IN /\ \A i, j \in 1..Len(new) : i # j => new[i].id # new[j].id
              /\ old[1] \in Range(new)
              /\ old[Len(old)] \in Range(new)
              /\ OnePerBeat(new, Before[1], old[1].prompt)

\* C10: for every stored project exportTimelineFrames returns floor(duration * fps)
\* frames and the project's fps, whatever the number of keyframes.
ExportReturnsAllFrames ==
    (Returned("exportTimelineFrames") /\ Before # <<>>) =>
        /\ Main.status = "ok"
        /\ Len(Main.ret[1].frames) = (Before[1].duration * Before[1].fps) \div TimeScale
        /\ Main.ret[1].fps = Before[1].fps

----------------------------------------------------------------------------
(* exportTimelineFrames: the prompt of each frame *)

Exported == Returned("exportTimelineFrames") /\ Main.status = "ok"

\* the adjacent keyframe pairs (i, i + 1) that bracket frame f: k[i].time <= f/fps < k[i+1].time
Brackets(project, f) ==
    {i \in 1..(Len(project.keyframes) - 1) :
        /\ project.keyframes[i].time * project.fps <= f * TimeScale
        /\ f * TimeScale < project.keyframes[i + 1].time * project.fps}

\* C11: a frame bracketed by an adjacent keyframe pair (the first such pair) gets the
\* earlier keyframe's prompt when its time is strictly before the midpoint of the
\* interval, and the later keyframe's prompt at or after the midpoint.
ExportFollowsMidpointRule ==
    Exported =>
        LET project == Main.project[1]
            kfs == project.keyframes
            frames == Main.ret[1].frames
        IN \A f \in 0..(Len(frames) - 1) :
              Brackets(project, f) # {} =>
                  LET i == Min(Brackets(project, f))
                  IN frames[f + 1] =
                        IF 2 * f * TimeScale < (kfs[i].time + kfs[i + 1].time) * project.fps
                        THEN kfs[i].prompt
                        ELSE kfs[i + 1].prompt

\* an export has returned in which one keyframe pair with two different prompts
\* brackets a frame before the midpoint and the frame exactly at the midpoint
C11_Witness ==
    /\ Exported
    /\ LET project == Main.project[1]
           kfs == project.keyframes
           frames == Main.ret[1].frames
       IN \E f, g \in 0..(Len(frames) - 1) :
             /\ Brackets(project, f) # {} /\ Brackets(project, g) # {}
             /\ Min(Brackets(project, f)) = Min(Brackets(project, g))
             /\ LET i == Min(Brackets(project, f))
                IN /\ kfs[i].prompt # kfs[i + 1].prompt
                   /\ 2 * f * TimeScale < (kfs[i].time + kfs[i + 1].time) * project.fps
                   /\ 2 * g * TimeScale = (kfs[i].time + kfs[i + 1].time) * project.fps
                   /\ frames[f + 1] = kfs[i].prompt
                   /\ frames[g + 1] = kfs[i + 1].prompt

\* C12: a frame that no adjacent keyframe pair brackets gets the last keyframe's
\* prompt when its time is at or beyond the last keyframe's time and the first
\* keyframe's prompt when its time is before the first keyframe's time, also when
\* the first and the last keyframe have the same time or are one keyframe.
ExportFallsBackToFirstAndLast ==
    Exported =>
        LET project == Main.project[1]
            kfs == project.keyframes
            frames == Main.ret[1].frames
        IN \A f \in 0..(Len(frames) - 1) :
              Brackets(project, f) = {} =>
                  /\ f * TimeScale >= kfs[Len(kfs)].time * project.fps =>
                        frames[f + 1] = kfs[Len(kfs)].prompt
                  /\ f * TimeScale < kfs[1].time * project.fps =>
                        frames[f + 1] = kfs[1].prompt

\* an export has returned on a project whose first and last keyframe have the same
\* time and different prompts: no pair brackets any frame, every frame is at or
\* beyond the last keyframe
C12_Witness ==
    /\ Exported
    /\ LET project == Main.project[1]
           kfs == project.keyframes
           frames == Main.ret[1].frames
       IN /\ Len(kfs) >= 2
          /\ kfs[1].time = kfs[Len(kfs)].time
          /\ kfs[1].prompt # kfs[Len(kfs)].prompt
          /\ Len(frames) > 0
          /\ \A f \in 0..(Len(frames) - 1) :
                /\ Brackets(project, f) = {}
                /\ frames[f + 1] = kfs[Len(kfs)].prompt

----------------------------------------------------------------------------
(* getTimelinePreview *)

Previewed == Returned("getTimelinePreview")

\* C13: getTimelinePreview on a project with n keyframes returns max(0, n - 1)
\* segments; segment i starts at k[i].time, ends at k[i+1].time, carries k[i].prompt
\* and the color i mod 6 of the palette, so each segment ends where the next starts.
PreviewIsOneSegmentPerPair ==
    Previewed =>
        LET kfs == Main.project[1].keyframes
            segments == Main.ret[1].segments
        IN /\ Len(segments) = (IF Len(kfs) >= 1 THEN Len(kfs) - 1 ELSE 0)
           /\ Len(PreviewColors) = 6
           /\ \A j \in 1..Len(segments) :
                 /\ segments[j].start = kfs[j].time
                 /\ segments[j].end = kfs[j + 1].time
                 /\ segments[j].prompt = kfs[j].prompt
                 /\ segments[j].color = PreviewColors[((j - 1) % 6) + 1]
           /\ \A j \in 1..(Len(segments) - 1) : segments[j].end = segments[j + 1].start

\* a preview has returned with more segments than the palette has colors, the
\* seventh segment has the color of the first
C13_Witness ==
    /\ Previewed
    /\ Len(Main.ret[1].segments) > Len(PreviewColors)
    /\ Main.ret[1].segments[7].color = Main.ret[1].segments[1].color
    /\ Main.ret[1].segments[6].color # Main.ret[1].segments[1].color

----------------------------------------------------------------------------
(* mixStyles and applyMixedStylesToPrompt *)

Mixed == mixer.pc # "idle"
MixedOk == Mixed /\ mixer.status = "ok"
Total_ == SumOf(mixer.ratios)

\* the art styles of the styles at the indices of `chosen`, in input order, joined
JoinedArtStyles(chosen) ==
    LET Keep(i) == i \in chosen
        indices == SelectSeq([i \in 1..Len(mixer.styles) |-> i], Keep)
    IN Join([k \in 1..Len(indices) |-> mixer.styles[indices[k]].extractedFeatures.artStyle],
            <<" mixed with ">>)

\* C14: mixStyles fails with InvalidArgument exactly when the two lists differ in
\* length, and for lists of equal length, the empty lists and all-zero ratios
\* included, returns a feature record without any other error.
MixFailsOnlyOnLengthMismatch ==
    Mixed =>
        /\ mixer.status = InvalidArgument <=> Len(mixer.styles) # Len(mixer.ratios)
        /\ Len(mixer.styles) = Len(mixer.ratios) =>
              mixer.status = "ok" /\ mixer.features # <<>>

\* C15: for non-empty lists of equal length with a positive ratio sum, lighting,
\* composition and mood all come from one input style, the first in input order
\* among those with the highest ratio.
TextFeaturesFromDominantStyle ==
    (/\ Mixed
     /\ Len(mixer.styles) = Len(mixer.ratios)
     /\ Len(mixer.styles) > 0
     /\ Total_ > 0) =>
        /\ mixer.status = "ok"
        /\ \E i \in 1..Len(mixer.styles) :
              /\ \A j \in 1..Len(mixer.ratios) : mixer.ratios[j] <= mixer.ratios[i]
              /\ \A j \in 1..(i - 1) : mixer.ratios[j] < mixer.ratios[i]
              /\ mixer.features[1].lighting = mixer.styles[i].extractedFeatures.lighting
              /\ mixer.features[1].composition = mixer.styles[i].extractedFeatures.composition
              /\ mixer.features[1].mood = mixer.styles[i].extractedFeatures.mood

\* a mix has returned in which the second and the third style share the highest
\* ratio and the text features are the second style's
C15_Witness ==
    /\ MixedOk
    /\ Len(mixer.styles) = 3
    /\ mixer.ratios[2] = mixer.ratios[3]
    /\ mixer.ratios[1] < mixer.ratios[2]
    /\ mixer.features[1].lighting = mixer.styles[2].extractedFeatures.lighting
    /\ mixer.features[1].lighting # mixer.styles[3].extractedFeatures.lighting
    /\ mixer.features[1].mood = mixer.styles[2].extractedFeatures.mood
    /\ mixer.features[1].composition = mixer.styles[2].extractedFeatures.composition

\* C16, as stated: the artStyle returned is the art styles of exactly the styles
\* whose normalized ratio is strictly greater than 0.2, in input order, joined by
\* " mixed with ".
ArtStyleJoinsEveryStyleAboveFifth ==
    MixedOk =>
        mixer.features[1].artStyle =
            JoinedArtStyles({i \in 1..Len(mixer.styles) : 5 * mixer.ratios[i] > Total_})

\* C16, amended: the artStyle returned is the art styles of exactly the styles
\* whose normalized ratio is strictly greater than 0.2 and whose art style is not
\* the empty string, in input order, joined by " mixed with "; a style at 0.2 or
\* less never contributes.
ArtStyleJoinsNonEmptyAboveFifth ==
    MixedOk =>
        mixer.features[1].artStyle =
            JoinedArtStyles({i \in 1..Len(mixer.styles) :
                                /\ 5 * mixer.ratios[i] > Total_
                                /\ mixer.styles[i].extractedFeatures.artStyle # <<>>})

\* a mix of three styles has returned: the first is at exactly 0.2 and is left out,
\* of the other two one has an empty art style and is dropped, the art style
\* returned is the remaining style's
C16_Witness ==
    /\ MixedOk
    /\ Len(mixer.styles) = 3
    /\ 5 * mixer.ratios[1] = Total_
    /\ mixer.styles[1].extractedFeatures.artStyle # <<>>
    /\ 5 * mixer.ratios[2] > Total_ /\ 5 * mixer.ratios[3] > Total_
    /\ mixer.styles[2].extractedFeatures.artStyle = <<>>
    /\ mixer.features[1].artStyle = mixer.styles[3].extractedFeatures.artStyle

\* the number c of colors style i contributes: c = round(len * ratio / total), half
\* rounding up, that is c <= len * ratio / total + 1/2 < c + 1
Contributes(i, c) ==
    LET length == Len(mixer.styles[i].extractedFeatures.colorPalette)
    IN /\ 2 * Total_ * c <= 2 * length * mixer.ratios[i] + Total_
       /\ 2 * length * mixer.ratios[i] + Total_ < 2 * Total_ * (c + 1)

\* C17: the colorPalette returned is the first 5 elements of the concatenation, in
\* input order, of the first round(len_i * ratio_i) colors of each style, half
\* rounding up; it never has more than 5 colors.
PaletteIsRoundedSharesCutToFive ==
    MixedOk =>
        /\ \A i \in 1..Len(mixer.styles) : \E c \in 0..5 : Contributes(i, c)
        /\ LET count(i) == CHOOSE c \in 0..5 : Contributes(i, c)
               all == Concat([i \in 1..Len(mixer.styles) |->
                                 SubSeq(mixer.styles[i].extractedFeatures.colorPalette,
                                        1, count(i))])
           IN /\ mixer.features[1].colorPalette =
                    SubSeq(all, 1, IF Len(all) < 5 THEN Len(all) ELSE 5)
              /\ Len(mixer.features[1].colorPalette) <= 5

\* a mix of two styles with palettes of five colors at ratios 90 and 10 (0.9 and
\* 0.1) has returned: the first contributes 5 colors, the second 1, and the palette
\* returned is the first style's 5 colors
C17_Witness ==
    /\ MixedOk
    /\ mixer.ratios = <<90, 10>>
    /\ Len(mixer.styles[1].extractedFeatures.colorPalette) = 5
    /\ Len(mixer.styles[2].extractedFeatures.colorPalette) = 5
    /\ Contributes(1, 5) /\ Contributes(2, 1)
    /\ mixer.features[1].colorPalette = mixer.styles[1].extractedFeatures.colorPalette

Applied == mixer.pc = "applied"

\* the features the claim lists for an intensity, in the fixed order
ListedFeatures(intensity) ==
    (IF intensity > 30 THEN <<"lighting">> ELSE <<>>)
    \o (IF intensity > 50 THEN <<"mood", "composition">> ELSE <<>>)
    \o (IF intensity > 70 THEN <<"artStyle", "palette">> ELSE <<>>)

FeatureText(features, name) ==
    IF name = "palette"
    THEN <<"color palette: ">>
            \o Join([i \in 1..Len(features.colorPalette) |-> Text(features.colorPalette[i])],
                    <<", ">>)
    ELSE features[name]

\* C18: applyMixedStylesToPrompt puts after the base prompt, in the order lighting,
\* mood, composition, artStyle, palette: lighting iff intensity > 30, mood and
\* composition iff intensity > 50, artStyle and the palette listing iff
\* intensity > 70; what is included at an intensity is included at every higher one.
PromptIncludesFeaturesByThreshold ==
    Applied =>
        LET features == mixer.features[1]
            listed == ListedFeatures(mixer.intensity)
        IN /\ mixer.prompt[1] =
                 mixer.basePrompt \o <<", ">>
                    \o Join([k \in 1..Len(listed) |-> FeatureText(features, listed[k])],
                            <<", ">>)
           /\ \A i, j \in Intensities :
                 i <= j =>
                    LET lower == StyleModifiers(features, i)
                        higher == StyleModifiers(features, j)
                    IN /\ Len(lower) <= Len(higher)
                       /\ SubSeq(higher, 1, Len(lower)) = lower

\* a prompt has been built at intensity 51 from features that are all non-empty
\* and different: lighting, mood and composition are in it, the art style is not
C18_Witness ==
    /\ Applied
    /\ mixer.intensity = 51
    /\ LET features == mixer.features[1]
       IN /\ features.artStyle # <<>> /\ features.lighting # <<>>
          /\ mixer.prompt[1] =
                mixer.basePrompt \o <<", ">> \o features.lighting \o <<", ">>
                   \o features.mood \o <<", ">> \o features.composition

----------------------------------------------------------------------------
(* The data service *)

DataOps == {"syncUser", "saveCreation"}

\* the record of the latest call is in the list stored under its key
RecordInLocalStore ==
    IF dataCall.op = "syncUser"
    THEN dataCall.record \in Range(localStore.luxe_users)
    ELSE dataCall.record \in Range(localStore.luxe_creations[dataCall.userId])

\* C19: syncUser and saveCreation write the record to the local store before the
\* remote mirror is called; once the remote step is reached (skipped for want of a
\* client, pending, succeeded, answered with an error, or thrown) the record is and
\* stays in the local store, a call that returns has stored it, and a remote
\* failure is never raised to the caller.
LocalWriteFirstRemoteFailureSilent ==
    dataCall.op \in DataOps =>
        /\ dataCall.remote # "none" => RecordInLocalStore
        /\ (dataCall.pc = "done" /\ dataCall.status = "ok") => RecordInLocalStore
        /\ (dataCall.pc = "done" /\ dataCall.remote # "none") => dataCall.status = "ok"
        /\ dataCall.pc \in {"local_get", "local_set"} => dataCall.remote = "none"

\* a saveCreation has returned whose remote request threw: the creation is in the
\* local store and not in the remote table
C19_Witness ==
    /\ dataCall.op = "saveCreation" /\ dataCall.pc = "done"
    /\ dataCall.remote = "threw"
    /\ dataCall.status = "ok"
    /\ RecordInLocalStore
    /\ CreationRow(dataCall.record, dataCall.userId) \notin remoteTables.creations

RemoteReachable == supabaseInstance = "client" /\ online

\* a record stored locally that the reachable remote mirror does not hold
UserUnmirrored(user) ==
    /\ RemoteReachable
    /\ user \in Range(localStore.luxe_users)
    /\ ProfileRow(user) \notin remoteTables.profiles

CreationUnmirrored(creation, userId) ==
    /\ RemoteReachable
    /\ creation \in Range(localStore.luxe_creations[userId])
    /\ CreationRow(creation, userId) \notin remoteTables.creations

\* C20: every awaited promise settling, a profile or creation saved locally while
\* the remote mirror was unavailable or not configured is eventually written to the
\* remote store once the mirror is reachable: no stored record stays unmirrored
\* forever while the mirror stays reachable.
LocalRecordsEventuallyMirrored ==
    /\ \A user \in Users : []<>(~UserUnmirrored(user))
    /\ \A creation \in Creations : \A userId \in UserIds :
          []<>(~CreationUnmirrored(creation, userId))

----------------------------------------------------------------------------
\* C22: for every intensity <= 30 applyMixedStylesToPrompt appends nothing: the text
\* returned is exactly the base prompt, with no trailing separator.
LowIntensityReturnsBasePrompt ==
    (Applied /\ mixer.intensity <= 30) => mixer.prompt[1] = mixer.basePrompt

----------------------------------------------------------------------------
Generated == Returned("generateAudioReactiveKeyframes") /\ Main.status = "ok"

\* C28: generateAudioReactiveKeyframes is idempotent on a project with at least two
\* keyframes: run again with the same audioUrl on the project the first call stored,
\* it leaves the keyframe list, audioUrl and audioReactive as the first call left them.
GenerateIsIdempotent ==
    (/\ Generated
     /\ Before # <<>> /\ After # <<>>
     /\ Len(Before[1].keyframes) >= 2) =>
        LET once == After[1]
            twice == WithAudioKeyframes(once, Main.audioUrl)
        IN /\ twice.keyframes = once.keyframes
           /\ twice.audioUrl = once.audioUrl
           /\ twice.audioReactive = once.audioReactive

----------------------------------------------------------------------------
KeyframeOps ==
    {"addKeyframe", "updateKeyframe", "deleteKeyframe", "generateAudioReactiveKeyframes"}

\* C23: once deleteTimelineProject(id) has completed the persisted collection holds
\* no project with that id unless createTimelineProject creates it anew; a keyframe
\* call on the project that was in flight when the delete ran does not bring it
\* back.  Stated for the behaviours in which exactly two calls were started, the
\* delete and one addKeyframe, updateKeyframe, deleteKeyframe or
\* generateAudioReactiveKeyframes call on the same id, so no project was created.
DeletedProjectStaysDeleted ==
    \A s, t \in Slots :
        (/\ s # t
         /\ callsLeft = MaxConcCalls - 2
         /\ calls[s].op = "deleteTimelineProject"
         /\ calls[s].pc = "done" /\ calls[s].status = "ok"
         /\ calls[t].op \in KeyframeOps
         /\ calls[t].projectId = calls[s].projectId) =>
            FindProject(storage, calls[s].projectId) = <<>>

----------------------------------------------------------------------------
\* the settings stored now hold both a Supabase URL and a key
CredentialsStored ==
    /\ localStore.luxe_global_settings # <<>>
    /\ HasCredentials(localStore.luxe_global_settings[1])

\* C21: syncUser, saveCreation and saveGlobalSettings contact the remote mirror only
\* while the stored global settings hold both a Supabase URL and a key: a remote
\* request is never in flight while the stored settings lack one of them, also
\* after settings without them were saved over configured ones.
RemoteOnlyWhileCredentialsStored ==
    dataCall.remote = "pending" => CredentialsStored

----------------------------------------------------------------------------
\* C24: for every stored beta invite, the validateBetaInvite calls on its code
\* that returned true are at most maxUses, and its stored usedCount is at most
\* maxUses, whatever the interleaving of the concurrent calls.
InviteNeverOverused ==
    \A i \in 1..Len(invites.luxe_beta_invites) :
        LET invite == invites.luxe_beta_invites[i]
        IN /\ invite.usedCount <= invite.maxUses
           /\ invites.returnedTrue[invite.code] <= invite.maxUses

----------------------------------------------------------------------------
HistoryReturned(op) == history.call.op = op /\ history.call.status = "ok"

\* C26: the persisted prompt history never holds more than MAX_HISTORY_ITEMS items,
\* whatever calls were made, and after addPromptToHistory the new item is first
\* with the previous items following in their old order.
HistoryBoundedAndAddPutsFirst ==
    LET list == history.luxe_prompt_history
    IN /\ Len(list) <= MAX_HISTORY_ITEMS
       /\ HistoryReturned("addPromptToHistory") =>
            /\ list # <<>>
            /\ list[1] = history.call.item[1]
            /\ Tail(list) = SubSeq(history.call.pre, 1, Len(list) - 1)

\* the ids that the file imported and the history before the call share
ClashingIds ==
    {item.id : item \in Range(history.call.imported)}
        \cap {item.id : item \in Range(history.call.pre)}

\* C27: after importPromptHistory every id occurs once in the history, an id of
\* the file is held by the file's item also when the history had an item of that
\* id, and importing the same file again leaves the history as it is.
ImportDeduplicatesKeepsImported ==
    HistoryReturned("importPromptHistory") =>
        LET list == history.luxe_prompt_history
            imported == history.call.imported
        IN /\ \A i, j \in 1..Len(list) : list[i].id = list[j].id => i = j
           /\ \A id \in ClashingIds :
                list[FindIndexById(list, id)] = imported[FindIndexById(imported, id)]
           /\ Unique(imported \o list) = list

\* an import whose file shares an id with the history under another prompt, while
\* the history holds a further item
C27_Witness ==
    /\ HistoryReturned("importPromptHistory")
    /\ \E id \in ClashingIds :
          history.call.imported[FindIndexById(history.call.imported, id)]
              # history.call.pre[FindIndexById(history.call.pre, id)]
    /\ \E item \in Range(history.call.pre) : item.id \notin ClashingIds
    /\ Len(history.call.imported) >= 2

----------------------------------------------------------------------------
\* the workspace of the latest call, before the call and after it
WorkspaceBefore == FindWorkspace(workspaces.call.pre, workspaces.call.workspaceId)
WorkspaceAfter == FindWorkspace(workspaces.luxe_workspaces, workspaces.call.workspaceId)

----------------------------------------------------------------------------
\* C30: createCollaborativePrompt issues version 1, updateCollaborativePrompt
\* issues the version passed in plus 1, and no two prompt_update payloads of one
\* promptId carry the same version with different content, also when two editors
\* update from the same base version at the same time.
VersionIdentifiesContent ==
    /\ collab.call.op = "createCollaborativePrompt" => collab.call.ret[1].version = 1
    /\ collab.call.op = "updateCollaborativePrompt" =>
          collab.call.ret[1].version = collab.call.prompt[1].version + 1
    /\ \A p, q \in collab.sent :
          (p.promptId = q.promptId /\ p.version = q.version) => p.content = q.content

----------------------------------------------------------------------------
EarlyReturns == {"no_prompt", "no_user"}

\* C25: handleGenerate always ends with isGenerating false: whenever isGenerating
\* is true the handler goes on to return, every return leaves it false, and the
\* two validation returns (empty prompt, no user) never set it to true.
HandleGenerateEndsNotGenerating ==
    /\ [](studio.pc = "done" => ~studio.isGenerating)
    /\ [](studio.isGenerating => <>(studio.pc = "done" /\ ~studio.isGenerating))
    /\ [][(studio'.pc = "done" /\ studio'.outcome \in EarlyReturns) =>
            (~studio.isGenerating /\ ~studio'.isGenerating)]_studio

\* a generation succeeded, saving the creation threw, and the button is enabled
\* again
C25_Witness ==
    /\ studio.pc = "done"
    /\ studio.outcome = "save_threw"
    /\ studio.generatedUrl # NoUrl
    /\ ~studio.isGenerating

====
